---- MODULE Spec2Model ----
(***************************************************************************)
(* PAN-OS WildFire registration tool: the version-affectedness classifier  *)
(* (utils/version.go, config patch table), the batch partitioner           *)
(* SplitDevices and the registration phase of main.                        *)
(*                                                                         *)
(* Go strings are TLA+ strings; a Go map[string]string is a function whose *)
(* domain is the set of keys present; a nil or empty slice is <<>>; a nil  *)
(* error is NoError and any other error is its message.                    *)
(***************************************************************************)
EXTENDS Integers, Sequences, FiniteSets, TLC

\* ------------------------------------------------------------------ bounds

\* Versions drawn for the classifier: major -1..MaxMajor, feature 0..MaxFeature,
\* maintenance 0..MaxMaintenance, hotfix 0..MaxHotfix.
MaxMajor == 12
MaxFeature == 3
MaxMaintenance == 27
MaxHotfix == 17

\* Longest device list handed to SplitDevices on its own.
MaxDevices == 3

\* Longest device list GetDeviceList hands to main.
MaxFleet == 2

\* Largest field of the versions handed to IsLessThan.
MaxCompared == 2

\* Most hostname filters handed to filterDevices.
MaxFilters == 2

\* Most devices of the inventory file.
MaxInventory == 3

\* Most results PrintResults is told to wait for, and most messages sent.
MaxTotal == 3

\* Most dot-separated pieces of a version string handed to ParseVersion.
MaxSegments == 4

\* Largest value given to the -concurrency flag.
MaxConcurrency == 2

\* ----------------------------------------------------------------- strings

NoError == "<nil>"

\* Reading a Go map: a missing key reads as the empty string.
Get(m, k) == IF k \in DOMAIN m THEN m[k] ELSE ""

\* fmt.Sprintf("%d", n)
FormatInt(n) == ToString(n)

DigitValue ==
  [c \in {"0", "1", "2", "3", "4", "5", "6", "7", "8", "9"} |->
     CASE c = "0" -> 0 [] c = "1" -> 1 [] c = "2" -> 2 [] c = "3" -> 3
       [] c = "4" -> 4 [] c = "5" -> 5 [] c = "6" -> 6 [] c = "7" -> 7
       [] c = "8" -> 8 [] c = "9" -> 9]

ParseDigitsFirstDigitOnly(s, acc) ==
  IF s = "" THEN [val |-> acc, ok |-> TRUE]
  ELSE IF Head(s) \in DOMAIN DigitValue
       THEN [val |-> DigitValue[Head(s)], ok |-> TRUE]
       ELSE [val |-> 0, ok |-> FALSE]
RECURSIVE ParseDigits(_, _)
ParseDigits(s, acc) ==
  IF s = "" THEN [val |-> acc, ok |-> TRUE]
  ELSE IF Head(s) \in DOMAIN DigitValue
       THEN ParseDigits(Tail(s), acc * 10 + DigitValue[Head(s)])
       ELSE [val |-> 0, ok |-> FALSE]

\* strconv.Atoi: an optional sign, then one or more decimal digits; on a
\* syntax error the value is 0 and ok is FALSE.
AtoiNeverFails(s) ==
  LET signed == s # "" /\ Head(s) \in {"+", "-"}
      body == IF signed THEN Tail(s) ELSE s
      r == ParseDigits(body, 0)
  IN  IF body = "" \/ ~r.ok THEN [val |-> 0, ok |-> TRUE]
      ELSE [val |-> IF signed /\ Head(s) = "-" THEN 0 - r.val ELSE r.val,
            ok |-> TRUE]
Atoi(s) ==
  LET signed == s # "" /\ Head(s) \in {"+", "-"}
      body == IF signed THEN Tail(s) ELSE s
      r == ParseDigits(body, 0)
  IN  IF body = "" \/ ~r.ok THEN [val |-> 0, ok |-> FALSE]
      ELSE [val |-> IF signed /\ Head(s) = "-" THEN 0 - r.val ELSE r.val,
            ok |-> TRUE]

\* ------------------------------------------------------------- patch table

MPV(m, h) == [Maintenance |-> m, Hotfix |-> h]

MinimumPatchedVersionsRepeated ==
  [k \in {"8.1", "9.0", "9.1", "10.0", "10.1", "10.2", "10.2-gp",
          "11.0", "11.0-gp", "11.1", "11.1-gp"} |->
     <<MPV(0, 2), MPV(1, 3), MPV(1, 5), MPV(4, 0)>>]
MinimumPatchedVersions ==
  [k \in {"8.1", "9.0", "9.1", "10.0", "10.1", "10.2", "10.2-gp",
          "11.0", "11.0-gp", "11.1", "11.1-gp"} |->
     CASE k = "8.1" -> <<MPV(21, 3), MPV(25, 3), MPV(26, 0)>>
       [] k = "9.0" -> <<MPV(16, 7), MPV(17, 5)>>
       [] k = "9.1" -> <<MPV(11, 5), MPV(12, 7), MPV(13, 5), MPV(14, 8),
                         MPV(16, 5), MPV(17, 0)>>
       [] k = "10.0" -> <<MPV(8, 8), MPV(11, 4), MPV(12, 5)>>
       [] k = "10.1" -> <<MPV(3, 3), MPV(4, 6), MPV(5, 4), MPV(6, 8),
                          MPV(7, 1), MPV(8, 7), MPV(9, 8), MPV(10, 5),
                          MPV(11, 5), MPV(12, 0)>>
       [] k = "10.2" -> <<MPV(0, 2), MPV(1, 1), MPV(2, 4), MPV(3, 12),
                          MPV(4, 10), MPV(6, 1), MPV(7, 3), MPV(8, 0)>>
       [] k = "10.2-gp" -> <<MPV(0, 3), MPV(1, 2), MPV(2, 5), MPV(3, 13),
                             MPV(4, 16), MPV(5, 6), MPV(6, 3), MPV(7, 8),
                             MPV(8, 3), MPV(9, 1)>>
       [] k = "11.0" -> <<MPV(0, 2), MPV(1, 3), MPV(2, 3), MPV(3, 3),
                          MPV(4, 0)>>
       [] k = "11.0-gp" -> <<MPV(0, 3), MPV(1, 4), MPV(2, 4), MPV(3, 10),
                             MPV(4, 1)>>
       [] k = "11.1" -> <<MPV(0, 2), MPV(1, 0)>>
       [] k = "11.1-gp" -> <<MPV(0, 3), MPV(1, 1), MPV(2, 3)>>]

\* -------------------------------------------------------------- classifier

\* version.go:497  the 11.2 ceiling
IsCeilingExemptMajorOnly(major, feature) == major > 11
IsCeilingExempt(major, feature) ==
  major > 11 \/ (major = 11 /\ feature >= 2)

\* version.go:508-511  the patch-table key
FeatureReleaseAlwaysSuffixed(v, isGlobalProtect) ==
  LET featureRelease == FormatInt(v.Major) \o "." \o FormatInt(v.Feature)
  IN  IF isGlobalProtect THEN featureRelease \o "-gp" ELSE featureRelease
FeatureRelease(v, isGlobalProtect) ==
  LET featureRelease == FormatInt(v.Major) \o "." \o FormatInt(v.Feature)
  IN  IF isGlobalProtect /\ featureRelease \in {"10.2", "11.0", "11.1"}
      THEN featureRelease \o "-gp"
      ELSE featureRelease

\* version.go:516  versions earlier than 8.1
IsEarlierThan81ThroughMajor8(v) == v.Major <= 8
IsEarlierThan81MajorOnly(v) == v.Major < 8
IsEarlierThan81(v) == v.Major < 8 \/ (v.Major = 8 /\ v.Feature < 1)

\* version.go:523  the loop's condition
IsBelowHotfixOnly(v, minVersion) ==
  v.Maintenance = minVersion.Maintenance /\ v.Hotfix < minVersion.Hotfix
IsBelow(v, minVersion) ==
  \/ v.Maintenance < minVersion.Maintenance
  \/ (v.Maintenance = minVersion.Maintenance /\ v.Hotfix < minVersion.Hotfix)

\* version.go:524
MinUpdateRelease(featureRelease, minVersion) ==
  featureRelease \o "." \o FormatInt(minVersion.Maintenance)
                 \o "-h" \o FormatInt(minVersion.Hotfix)

\* What IsAffectedVersion returns, with two observations of the call: the
\* key MinimumPatchedVersions was indexed with ("" when it was not read) and
\* the number of entries the loop examined.
Ret(isAffected, minUpdateRelease, err, consulted, scanned) ==
  [isAffected |-> isAffected, minUpdateRelease |-> minUpdateRelease,
   err |-> err, consulted |-> consulted, scanned |-> scanned]

\* version.go:522-529  for _, minVersion := range minVersions
RECURSIVE ScanMinVersions(_, _, _, _)
ScanMinVersions(minVersions, i, v, featureRelease) ==
  IF i > Len(minVersions)
  THEN Ret(FALSE, "", NoError, featureRelease, i - 1)
  ELSE IF IsBelow(v, minVersions[i])
       THEN Ret(TRUE, MinUpdateRelease(featureRelease, minVersions[i]),
                NoError, featureRelease, i)
       ELSE ScanMinVersions(minVersions, i + 1, v, featureRelease)

\* version.go:490-530
IsAffectedVersion(device, isGlobalProtect) ==
  LET major == Atoi(Get(device, "parsed_version_major")).val
      feature == Atoi(Get(device, "parsed_version_feature")).val
      maintenance == Atoi(Get(device, "parsed_version_maintenance")).val
      hotfix == Atoi(Get(device, "parsed_version_hotfix")).val
      v == [Major |-> major, Feature |-> feature,
            Maintenance |-> maintenance, Hotfix |-> hotfix]
      featureRelease == FeatureRelease(v, isGlobalProtect)
  IN  IF IsCeilingExempt(major, feature)
      THEN Ret(FALSE, "", NoError, "", 0)
      ELSE IF featureRelease \notin DOMAIN MinimumPatchedVersions
           THEN IF IsEarlierThan81(v)
                THEN Ret(TRUE, "8.1.0", NoError, featureRelease, 0)
                ELSE Ret(FALSE, "",
                         "unknown feature release: " \o featureRelease,
                         featureRelease, 0)
           ELSE ScanMinVersions(MinimumPatchedVersions[featureRelease], 1, v,
                                featureRelease)

\* ------------------------------------------------------------ ParseVersion

\* strings.Split(s, sep) for a non-empty sep
RECURSIVE Split(_, _)
Split(s, sep) ==
  LET n == Len(sep)
      hits == {i \in 1..(Len(s) - n + 1) : SubSeq(s, i, i + n - 1) = sep}
  IN  IF hits = {} THEN <<s>>
      ELSE LET i == CHOOSE i \in hits : \A j \in hits : i <= j
           IN  <<SubSeq(s, 1, i - 1)>> \o Split(SubSeq(s, i + n, Len(s)), sep)

\* strings.SplitN(s, sep, 2)
SplitN2(s, sep) ==
  LET n == Len(sep)
      hits == {i \in 1..(Len(s) - n + 1) : SubSeq(s, i, i + n - 1) = sep}
  IN  IF hits = {} THEN <<s>>
      ELSE LET i == CHOOSE i \in hits : \A j \in hits : i <= j
           IN  <<SubSeq(s, 1, i - 1), SubSeq(s, i + n, Len(s))>>

NoVersion == [Major |-> 0, Feature |-> 0, Maintenance |-> 0, Hotfix |-> 0]
Parsed(v, err) == [v |-> v, err |-> err]

\* version.go:433-474
ParseVersion(versionString) ==
  LET parts == Split(versionString, ".")
  IN  IF Len(parts) < 3
      THEN Parsed(NoVersion, "invalid version format: " \o versionString)
      ELSE
        LET major == Atoi(parts[1])
            feature == Atoi(parts[2])
            maintenanceHotfix == Split(parts[3], "-h")
            maintenance == Atoi(maintenanceHotfix[1])
            hotfix == IF Len(maintenanceHotfix) > 1
                      THEN Atoi(maintenanceHotfix[2])
                      ELSE [val |-> 0, ok |-> TRUE]
        IN  IF ~major.ok
            THEN Parsed(NoVersion, "invalid major version: " \o parts[1])
            ELSE IF ~feature.ok
            THEN Parsed(NoVersion, "invalid feature version: " \o parts[2])
            ELSE IF ~maintenance.ok
            THEN Parsed(NoVersion, "invalid maintenance version: "
                                     \o maintenanceHotfix[1])
            ELSE IF ~hotfix.ok
            THEN Parsed(NoVersion, "invalid hotfix version: "
                                     \o maintenanceHotfix[2])
            ELSE Parsed([Major |-> major.val, Feature |-> feature.val,
                         Maintenance |-> maintenance.val,
                         Hotfix |-> hotfix.val], NoError)

\* version.go:508, 524  "%d.%d" and "%s.%d-h%d": a version written out in
\* full
FormatVersion(v) ==
  FormatInt(v.Major) \o "." \o FormatInt(v.Feature) \o "."
    \o FormatInt(v.Maintenance) \o "-h" \o FormatInt(v.Hotfix)

\* version.go:477-488
IsLessThanOrEqual(v, o) ==
  IF v.Major # o.Major THEN v.Major < o.Major
  ELSE IF v.Feature # o.Feature THEN v.Feature < o.Feature
  ELSE IF v.Maintenance # o.Maintenance THEN v.Maintenance < o.Maintenance
  ELSE v.Hotfix <= o.Hotfix
IsLessThan(v, o) ==
  IF v.Major # o.Major THEN v.Major < o.Major
  ELSE IF v.Feature # o.Feature THEN v.Feature < o.Feature
  ELSE IF v.Maintenance # o.Maintenance THEN v.Maintenance < o.Maintenance
  ELSE v.Hotfix < o.Hotfix

\* --------------------------------------------------------- filterDevices

\* strings.TrimSpace, for the white space of a comma-separated flag value
RECURSIVE TrimLeft(_)
TrimLeft(s) ==
  IF s # "" /\ Head(s) \in {" ", "\t"} THEN TrimLeft(Tail(s)) ELSE s
RECURSIVE TrimRight(_)
TrimRight(s) ==
  IF s # "" /\ SubSeq(s, Len(s), Len(s)) \in {" ", "\t"}
  THEN TrimRight(SubSeq(s, 1, Len(s) - 1))
  ELSE s
TrimSpace(s) == TrimRight(TrimLeft(s))

\* strings.HasPrefix
HasPrefix(s, prefix) ==
  Len(s) >= Len(prefix) /\ SubSeq(s, 1, Len(prefix)) = prefix

\* devices.go:242  the test of the inner loop
FilterMatchesUntrimmed(hostname, filter) == HasPrefix(hostname, filter)
FilterMatches(hostname, filter) == HasPrefix(hostname, TrimSpace(filter))

\* devices.go:241-247  for _, filter := range filters: the device is
\* appended at the first filter that matches, and the loop left
RECURSIVE AppendOnMatch(_, _, _, _)
AppendOnMatch(acc, dev, fs, j) ==
  IF j > Len(fs) THEN acc
  ELSE IF FilterMatches(Get(dev, "hostname"), fs[j]) THEN Append(acc, dev)
  ELSE AppendOnMatch(acc, dev, fs, j + 1)

\* devices.go:239-248  for _, device := range devices
RECURSIVE HostFilterLoop(_, _, _, _)
HostFilterLoop(devices, fs, i, acc) ==
  IF i > Len(devices) THEN acc
  ELSE HostFilterLoop(devices, fs, i + 1, AppendOnMatch(acc, devices[i], fs, 1))

\* devices.go:233-253
filterDevices(devices, fs) ==
  IF Len(fs) = 0 THEN devices ELSE HostFilterLoop(devices, fs, 1, <<>>)

\* ------------------------------------------------------------ SplitDevices

\* m[k] = val on a Go map
SetKey(m, k, val) ==
  [x \in DOMAIN m \cup {k} |-> IF x = k THEN val ELSE m[x]]

\* version.go:539-542
CopyDevice(device) == [k \in DOMAIN device |-> device[k]]

\* What SplitDevices returns, with the number of IsAffectedVersion calls made.
SplitRet(affected, unaffected, err, calls) ==
  [affected |-> affected, unaffected |-> unaffected, err |-> err,
   calls |-> calls]

\* version.go:535-537
SplitAbortKeepsPartial(acc, device, err) ==
  SplitRet(acc.affected, acc.unaffected,
           "error checking device " \o Get(device, "hostname") \o ": " \o err,
           acc.calls + 1)
SplitAbort(acc, device, err) ==
  SplitRet(<<>>, <<>>,
           "error checking device " \o Get(device, "hostname") \o ": " \o err,
           acc.calls + 1)

\* version.go:539-550
SplitPlacePrepends(acc, device, r) ==
  IF r.isAffected
  THEN SplitRet(<<SetKey(CopyDevice(device), "minimumUpdateRelease",
                         r.minUpdateRelease)>> \o acc.affected,
                acc.unaffected, NoError, acc.calls + 1)
  ELSE SplitRet(acc.affected,
                <<SetKey(CopyDevice(device), "result", "Not affected")>>
                  \o acc.unaffected,
                NoError, acc.calls + 1)
SplitPlace(acc, device, r) ==
  IF r.isAffected
  THEN SplitRet(Append(acc.affected,
                       SetKey(CopyDevice(device), "minimumUpdateRelease",
                              r.minUpdateRelease)),
                acc.unaffected, NoError, acc.calls + 1)
  ELSE SplitRet(acc.affected,
                Append(acc.unaffected,
                       SetKey(CopyDevice(device), "result", "Not affected")),
                NoError, acc.calls + 1)

\* version.go:533-551  for _, device := range deviceList
RECURSIVE SplitLoop(_, _, _)
SplitLoop(devices, i, acc) ==
  IF i > Len(devices) THEN acc
  ELSE LET r == IsAffectedVersion(devices[i], FALSE)
       IN  IF r.err # NoError THEN SplitAbort(acc, devices[i], r.err)
           ELSE SplitLoop(devices, i + 1, SplitPlace(acc, devices[i], r))

\* version.go:532-554
SplitDevices(devices) ==
  SplitLoop(devices, 1, SplitRet(<<>>, <<>>, NoError, 0))

\* version.go:539-550  the input record after the loop body: the keys are
\* written to deviceCopy, a map of its own, and device is only read
DeviceAfterPlaceAliased(device, r) ==
  IF r.isAffected
  THEN SetKey(device, "minimumUpdateRelease", r.minUpdateRelease)
  ELSE SetKey(device, "result", "Not affected")
DeviceAfterPlace(device, r) == device

\* version.go:533-551  the caller's list after the call: the loop body ran
\* for the devices before the first one IsAffectedVersion fails on
DevicesAfterSplit(devices) ==
  LET s == SplitDevices(devices)
      placed == IF s.err # NoError THEN s.calls - 1 ELSE s.calls
  IN  [i \in 1..Len(devices) |->
         IF i <= placed
         THEN DeviceAfterPlace(devices[i], IsAffectedVersion(devices[i], FALSE))
         ELSE devices[i]]

\* ----------------------------------------------------------- family filter

\* config/platforms.go:5-18
AffectedFamilies ==
  [f \in {"200", "220", "3000", "3200", "500", "5000", "5200", "7000",
          "7000b", "800", "vm", "vmarm"} |->
     CASE f = "200" -> <<"PA-200">>
       [] f = "220" -> <<"PA-220", "PA-220-ZTP", "PA-220R", "PA-220R-ZTP">>
       [] f = "3000" -> <<"PA-3020", "PA-3050", "PA-3060">>
       [] f = "3200" -> <<"PA-3220", "PA-3220-ZTP", "PA-3250", "PA-3250-ZTP",
                          "PA-3260">>
       [] f = "500" -> <<"PA-500">>
       [] f = "5000" -> <<"PA-5020", "PA-5050", "PA-5060">>
       [] f = "5200" -> <<"PA-5220", "PA-5250", "PA-5260", "PA-5280">>
       [] f = "7000" -> <<"PA-7050", "PA-7080">>
       [] f = "7000b" -> <<"PA-7050", "PA-7080">>
       [] f = "800" -> <<"PA-820", "PA-820-ZTP", "PA-850", "PA-850-ZTP">>
       [] f = "vm" -> <<"PA-VM", "PA-VM (lite)">>
       [] f = "vmarm" -> <<"PA-VMARM">>]

\* config/platforms.go:21-28
UnaffectedFamiliesOverlapping ==
  [f \in {"400", "1400", "3400", "5400", "5400f", "7500", "7000"} |->
     <<"PA-7500">>]
UnaffectedFamilies ==
  [f \in {"400", "1400", "3400", "5400", "5400f", "7500"} |->
     CASE f = "400" -> <<"PA-410", "PA-415", "PA-415-5G", "PA-440", "PA-445",
                         "PA-450", "PA-450R", "PA-460">>
       [] f = "1400" -> <<"PA-1410", "PA-1420">>
       [] f = "3400" -> <<"PA-3410", "PA-3420", "PA-3430", "PA-3440">>
       [] f = "5400" -> <<"PA-5450">>
       [] f = "5400f" -> <<"PA-5410", "PA-5420", "PA-5430", "PA-5440",
                           "PA-5445">>
       [] f = "7500" -> <<"PA-7500">>]

\* family.go:9-18
IsAffectedFamilyAnyFamily(fam, mod) ==
  \E f \in DOMAIN AffectedFamilies :
    \E i \in 1..Len(AffectedFamilies[f]) : AffectedFamilies[f][i] = mod
IsAffectedFamily(fam, mod) ==
  IF fam \in DOMAIN AffectedFamilies
  THEN LET affectedModels == AffectedFamilies[fam]
       IN  \E i \in 1..Len(affectedModels) : affectedModels[i] = mod
  ELSE FALSE

\* What FilterDevicesByFamily returns.
FilterRet(affected, unaffected) ==
  [affected |-> affected, unaffected |-> unaffected]

\* family.go:23-30  the loop body
FilterPlaceDropsUnlisted(acc, dev) ==
  IF IsAffectedFamily(Get(dev, "family"), Get(dev, "model"))
  THEN FilterRet(Append(acc.affected, dev), acc.unaffected)
  ELSE IF Get(dev, "family") \in DOMAIN UnaffectedFamilies
       THEN FilterRet(acc.affected, Append(acc.unaffected, dev))
       ELSE acc
FilterPlace(acc, dev) ==
  IF IsAffectedFamily(Get(dev, "family"), Get(dev, "model"))
  THEN FilterRet(Append(acc.affected, dev), acc.unaffected)
  ELSE FilterRet(acc.affected, Append(acc.unaffected, dev))

\* family.go:22-31  for _, device := range devices
RECURSIVE FilterLoop(_, _, _)
FilterLoop(devices, i, acc) ==
  IF i > Len(devices) THEN acc
  ELSE FilterLoop(devices, i + 1, FilterPlace(acc, devices[i]))

\* family.go:21-33
FilterDevicesByFamily(devices) == FilterLoop(devices, 1, FilterRet(<<>>, <<>>))

\* ------------------------------------------------------------------- state

VARIABLES
  pc,                \* position of the run (of main, or of the single call)
  version,           \* the Version a device record was written from
  device,            \* the device record handed to IsAffectedVersion
  isGlobalProtect,   \* IsAffectedVersion's flag
  ret,               \* what IsAffectedVersion returned
  deviceList,        \* the device list (main's, or SplitDevices' argument)
  splitRet,          \* what SplitDevices returned
  reportOnly,        \* flags.ReportOnly
  idx,               \* index of main's current loop
  affectedDevices,   \* main's affectedDevices
  unaffectedDevices, \* main's unaffectedDevices
  workers,           \* one goroutine per unaffected device
  results,           \* the results channel's buffer
  closed,            \* whether the results channel is closed
  processedResults,  \* main's processedResults
  registerCalls,     \* the devices RegisterWildFire was called with, in order
  report,            \* the arguments GeneratePDFReport was called with
  concurrency,       \* flags.Concurrency
  family,            \* IsAffectedFamily's first argument
  model,             \* IsAffectedFamily's second argument
  familyRet,         \* what IsAffectedFamily returned
  eligibleHardware,  \* FilterDevicesByFamily's first result
  ineligibleHardware,\* FilterDevicesByFamily's second result
  parseCalls,        \* history: the records main's version handling was applied to
  segments,          \* the dot-separated pieces a version string is built from
  hotfixPart,        \* what follows "-h" in its third piece, or NoHotfixPart
  versionString,     \* ParseVersion's argument
  parseRet,          \* what ParseVersion returned
  deviceList0,       \* history: the device list as it was first handed over
  other,             \* IsLessThan's argument; its receiver is version
  lessRet,           \* what v.IsLessThan(other) and other.IsLessThan(v) returned
  filters,           \* filterDevices' list of hostname filters
  filteredDevices,   \* what filterDevices returned
  inventory,         \* the hostnames of inventory.Inventory
  goroutines,        \* one goroutine per device of a DeviceManager method
  mu,                \* getDevicesFromInventory's mutex: its holder, or 0
  errorList,         \* getDevicesFromInventory's errorList
  totalDevices,      \* PrintResults' second argument
  successCount,      \* PrintResults' successCount
  failureCount,      \* PrintResults' failureCount
  pending,           \* the messages the senders of results have yet to send
  errorCount,        \* GetDeviceCertificateStatus' errorCount
  summary            \* the summary line GetDeviceCertificateStatus logged

classifyVars == <<version, device, isGlobalProtect, ret>>
mainVars ==
  <<reportOnly, idx, affectedDevices, unaffectedDevices, workers, results,
    closed, processedResults, registerCalls, report>>
familyVars ==
  <<family, model, familyRet, eligibleHardware, ineligibleHardware, parseCalls>>
parseVars == <<segments, hotfixPart, versionString, parseRet>>
compareVars == <<other, lessRet>>
hostFilterVars == <<filters, filteredDevices>>
inventoryVars == <<inventory, goroutines, mu, errorList>>
printVars == <<totalDevices, successCount, failureCount, pending>>
certVars == <<errorCount, summary>>
managerVars == <<inventoryVars, printVars, certVars>>
extraVars == <<compareVars, hostFilterVars, managerVars>>
restVars == <<concurrency, familyVars, parseVars, deviceList0, extraVars>>
vars == <<pc, classifyVars, deviceList, splitRet, mainVars, restVars>>

NoRet == Ret(FALSE, "", NoError, "", 0)
NoSplitRet == SplitRet(<<>>, <<>>, NoError, 0)
NoReport == [called |-> FALSE, unaffected |-> <<>>]
NoHotfixPart == "(none)"
NoLessRet == [ab |-> FALSE, ba |-> FALSE]

\* main:55-58  the four parsed_version_* keys, written with Sprintf("%d")
WithParsedVersion(d, v) ==
  [k \in DOMAIN d \cup {"parsed_version_major", "parsed_version_feature",
                        "parsed_version_maintenance", "parsed_version_hotfix"} |->
     CASE k = "parsed_version_major" -> FormatInt(v.Major)
       [] k = "parsed_version_feature" -> FormatInt(v.Feature)
       [] k = "parsed_version_maintenance" -> FormatInt(v.Maintenance)
       [] k = "parsed_version_hotfix" -> FormatInt(v.Hotfix)
       [] OTHER -> d[k]]

Versions ==
  [Major : (0 - 1)..MaxMajor, Feature : 0..MaxFeature,
   Maintenance : 0..MaxMaintenance, Hotfix : 0..MaxHotfix]

EmptyMap == [k \in {} |-> ""]

\* A record of the inventory: hostname and sw-version.
RawDevice(hostname, swVersion) ==
  ("hostname" :> hostname) @@ ("sw-version" :> swVersion)

Hostnames == {"fw1", "fw2"}

\* Sequences of at most n elements of S.
SeqUpTo(S, n) == UNION {[1..k -> S] : k \in 0..n}

ClassifyIdle ==
  /\ version = NoVersion
  /\ device = EmptyMap
  /\ isGlobalProtect = FALSE
  /\ ret = NoRet

MainIdle ==
  /\ reportOnly = FALSE
  /\ idx = 0
  /\ affectedDevices = <<>>
  /\ unaffectedDevices = <<>>
  /\ workers = <<>>
  /\ results = <<>>
  /\ closed = FALSE
  /\ processedResults = <<>>
  /\ registerCalls = <<>>
  /\ report = NoReport

\* The variables of the operations a specification does not run, at rest;
\* those named in own are left to the specification.
ExtraIdleBut(own) ==
  /\ IF "filteredDevices" \in own THEN TRUE ELSE filteredDevices = <<>>
  /\ IF "filters" \in own THEN TRUE ELSE filters = <<>>
  /\ IF "other" \in own THEN TRUE ELSE other = NoVersion
  /\ IF "lessRet" \in own THEN TRUE ELSE lessRet = NoLessRet
  /\ IF "inventory" \in own THEN TRUE ELSE inventory = <<>>
  /\ IF "goroutines" \in own THEN TRUE ELSE goroutines = <<>>
  /\ IF "mu" \in own THEN TRUE ELSE mu = 0
  /\ IF "errorList" \in own THEN TRUE ELSE errorList = <<>>
  /\ IF "totalDevices" \in own THEN TRUE ELSE totalDevices = 0
  /\ IF "successCount" \in own THEN TRUE ELSE successCount = 0
  /\ IF "failureCount" \in own THEN TRUE ELSE failureCount = 0
  /\ IF "pending" \in own THEN TRUE ELSE pending = <<>>
  /\ IF "errorCount" \in own THEN TRUE ELSE errorCount = 0
  /\ IF "summary" \in own THEN TRUE ELSE summary = ""
ExtraIdle == ExtraIdleBut({})

FamilyIdle ==
  /\ family = ""
  /\ model = ""
  /\ familyRet = FALSE
  /\ eligibleHardware = <<>>
  /\ ineligibleHardware = <<>>
  /\ parseCalls = <<>>

ParseIdle ==
  /\ segments = <<>>
  /\ hotfixPart = NoHotfixPart
  /\ versionString = ""
  /\ parseRet = Parsed(NoVersion, NoError)

RestIdle ==
  /\ concurrency = 1
  /\ FamilyIdle
  /\ ParseIdle

\* ------------------------------------------- specification: one classification

ClassifyInit ==
  /\ ExtraIdle
  /\ pc = "call"
  /\ version \in Versions
  /\ device = WithParsedVersion(EmptyMap, version)
  /\ isGlobalProtect \in BOOLEAN
  /\ ret = NoRet
  /\ deviceList = <<>>
  /\ deviceList0 = <<>>
  /\ splitRet = NoSplitRet
  /\ MainIdle
  /\ RestIdle

Classify ==
  /\ pc = "call"
  /\ ret' = IsAffectedVersion(device, isGlobalProtect)
  /\ pc' = "returned"
  /\ UNCHANGED <<restVars, version, device, isGlobalProtect, deviceList,
                 splitRet, mainVars>>

ClassifyNext == Classify

SpecClassify == ClassifyInit /\ [][ClassifyNext]_vars

\* ------------------- specification: one classification of an unreadable record

ParsedVersionKeys ==
  {"parsed_version_major", "parsed_version_feature",
   "parsed_version_maintenance", "parsed_version_hotfix"}

\* Values of a parsed_version_* key strconv.Atoi fails on.
NotNumbers == {"", "x", "6-h2"}

\* A Go map without the key k
WithoutKey(m, k) == [x \in DOMAIN m \ {k} |-> m[x]]

\* The versions the other three keys are written from.
UnreadableVersions ==
  [Major : {8, 10, 11}, Feature : 0..2, Maintenance : {0, 6, 26},
   Hotfix : {0, 8}]

\* IsAffectedVersion is handed a record one of whose four keys is missing or
\* holds no number.
UnreadableInit ==
  /\ ExtraIdle
  /\ pc = "call"
  /\ version \in UnreadableVersions
  /\ \E k \in ParsedVersionKeys :
       \/ device = WithoutKey(WithParsedVersion(EmptyMap, version), k)
       \/ \E junk \in NotNumbers :
            device = SetKey(WithParsedVersion(EmptyMap, version), k, junk)
  /\ isGlobalProtect \in BOOLEAN
  /\ ret = NoRet
  /\ deviceList = <<>>
  /\ deviceList0 = <<>>
  /\ splitRet = NoSplitRet
  /\ MainIdle
  /\ RestIdle

SpecUnreadable == UnreadableInit /\ [][ClassifyNext]_vars

\* ------------------------------------------- specification: one ParseVersion call

\* The pieces version strings are put together from, between the dots and
\* after "-h": decimal numbers, a negative number, a word, nothing.
Pieces == {"10", "1", "0", "-1", "x", ""}
HotfixPieces == {"2", "-3", "x", ""}

\* strings.Join(pieces, ".")
RECURSIVE Join(_)
Join(pieces) ==
  IF Len(pieces) = 0 THEN ""
  ELSE IF Len(pieces) = 1 THEN pieces[1]
  ELSE pieces[1] \o "." \o Join(Tail(pieces))

\* The version string of the pieces: "-h" and the hotfix piece follow the
\* third piece.
VersionStringOf(pieces, hotfix) ==
  Join([i \in 1..Len(pieces) |->
          IF i = 3 /\ hotfix # NoHotfixPart
          THEN pieces[i] \o "-h" \o hotfix
          ELSE pieces[i]])

ParseInit ==
  /\ ExtraIdle
  /\ pc = "call"
  /\ segments \in UNION {[1..n -> Pieces] : n \in 1..MaxSegments}
  /\ hotfixPart \in
       IF Len(segments) >= 3 THEN HotfixPieces \cup {NoHotfixPart}
       ELSE {NoHotfixPart}
  /\ versionString = VersionStringOf(segments, hotfixPart)
  /\ parseRet = Parsed(NoVersion, NoError)
  /\ concurrency = 1
  /\ FamilyIdle
  /\ deviceList = <<>>
  /\ deviceList0 = <<>>
  /\ splitRet = NoSplitRet
  /\ ClassifyIdle
  /\ MainIdle

CallParseVersion ==
  /\ pc = "call"
  /\ parseRet' = ParseVersion(versionString)
  /\ pc' = "returned"
  /\ UNCHANGED <<extraVars, classifyVars, deviceList, splitRet, mainVars, concurrency,
                 familyVars, segments, hotfixPart, versionString, deviceList0>>

ParseNext == CallParseVersion

SpecParse == ParseInit /\ [][ParseNext]_vars

\* ----------------------- specification: a version written out, then parsed

RoundTripVersions ==
  [Major : 0..MaxMajor, Feature : 0..MaxFeature,
   Maintenance : 0..MaxMaintenance, Hotfix : 0..MaxHotfix]

RoundTripInit ==
  /\ ExtraIdle
  /\ pc = "call"
  /\ version \in RoundTripVersions
  /\ versionString = FormatVersion(version)
  /\ segments = <<>>
  /\ hotfixPart = NoHotfixPart
  /\ parseRet = Parsed(NoVersion, NoError)
  /\ device = EmptyMap
  /\ isGlobalProtect = FALSE
  /\ ret = NoRet
  /\ concurrency = 1
  /\ FamilyIdle
  /\ deviceList = <<>>
  /\ deviceList0 = <<>>
  /\ splitRet = NoSplitRet
  /\ MainIdle

SpecRoundTrip == RoundTripInit /\ [][ParseNext]_vars

\* ------------------------------------------ specification: one pair compared

ComparedVersions ==
  [Major : 0..MaxCompared, Feature : 0..MaxCompared,
   Maintenance : 0..MaxCompared, Hotfix : 0..MaxCompared]

CompareInit ==
  /\ ExtraIdleBut({"other", "lessRet"})
  /\ pc = "call"
  /\ version \in ComparedVersions
  /\ other \in ComparedVersions
  /\ lessRet = NoLessRet
  /\ device = EmptyMap
  /\ isGlobalProtect = FALSE
  /\ ret = NoRet
  /\ concurrency = 1
  /\ FamilyIdle
  /\ ParseIdle
  /\ deviceList = <<>>
  /\ deviceList0 = <<>>
  /\ splitRet = NoSplitRet
  /\ MainIdle

\* v.IsLessThan(other) and other.IsLessThan(v)
Compare ==
  /\ pc = "call"
  /\ lessRet' = [ab |-> IsLessThan(version, other),
                 ba |-> IsLessThan(other, version)]
  /\ pc' = "returned"
  /\ UNCHANGED <<classifyVars, deviceList, splitRet, mainVars, concurrency,
                 familyVars, parseVars, deviceList0, other, hostFilterVars,
                 managerVars>>

CompareNext == Compare

SpecCompare == CompareInit /\ [][CompareNext]_vars

\* ------------------------------------------ specification: one filterDevices call

\* The records of the device list: hostname and address; one has no hostname.
HostDevices ==
  {("hostname" :> "fw1") @@ ("ip-address" :> "192.168.1.1"),
   ("hostname" :> "fw12") @@ ("ip-address" :> "192.168.1.2"),
   ("hostname" :> "dc1") @@ ("ip-address" :> "192.168.1.3"),
   ("ip-address" :> "192.168.1.4")}

\* The pieces of a -filter value between its commas.
FilterStrings == {"fw1", " fw", "dc1\t", " ", "x"}

HostFilterInit ==
  /\ ExtraIdleBut({"filters", "filteredDevices"})
  /\ pc = "call"
  /\ deviceList \in SeqUpTo(HostDevices, MaxDevices)
  /\ deviceList0 = deviceList
  /\ filters \in SeqUpTo(FilterStrings, MaxFilters)
  /\ filteredDevices = <<>>
  /\ concurrency = 1
  /\ FamilyIdle
  /\ ParseIdle
  /\ splitRet = NoSplitRet
  /\ ClassifyIdle
  /\ MainIdle

\* devices.go:233-253  the records are appended as they are
CallFilterDevices ==
  /\ pc = "call"
  /\ filteredDevices' = filterDevices(deviceList, filters)
  /\ pc' = "returned"
  /\ UNCHANGED <<classifyVars, deviceList, splitRet, mainVars, concurrency,
                 familyVars, parseVars, deviceList0, compareVars, filters,
                 managerVars>>

HostFilterNext == CallFilterDevices

SpecHostFilter == HostFilterInit /\ [][HostFilterNext]_vars

\* --------------------------------------- specification: one IsAffectedFamily call

\* The elements of a sequence
Range(f) == {f[i] : i \in DOMAIN f}

\* Family codes and model names handed to IsAffectedFamily: those of the two
\* tables, one of neither, and the empty string of a record without the key.
FamilyCodes ==
  DOMAIN AffectedFamilies \cup DOMAIN UnaffectedFamilies \cup {"1000", ""}
ModelNames ==
  UNION {Range(AffectedFamilies[f]) : f \in DOMAIN AffectedFamilies}
    \cup UNION {Range(UnaffectedFamilies[f]) : f \in DOMAIN UnaffectedFamilies}
    \cup {"PA-1000", ""}

FamilyInit ==
  /\ ExtraIdle
  /\ pc = "call"
  /\ family \in FamilyCodes
  /\ model \in ModelNames
  /\ familyRet = FALSE
  /\ eligibleHardware = <<>>
  /\ ineligibleHardware = <<>>
  /\ parseCalls = <<>>
  /\ concurrency = 1
  /\ ParseIdle
  /\ deviceList = <<>>
  /\ deviceList0 = <<>>
  /\ splitRet = NoSplitRet
  /\ ClassifyIdle
  /\ MainIdle

CallIsAffectedFamily ==
  /\ pc = "call"
  /\ familyRet' = IsAffectedFamily(family, model)
  /\ pc' = "returned"
  /\ UNCHANGED <<extraVars, classifyVars, deviceList, splitRet, mainVars, concurrency,
                 family, model, eligibleHardware, ineligibleHardware,
                 parseCalls, parseVars, deviceList0>>

FamilyNext == CallIsAffectedFamily

SpecFamily == FamilyInit /\ [][FamilyNext]_vars

\* ---------------------------------- specification: one FilterDevicesByFamily call

\* A record of the inventory with its hardware family and model; a key is
\* left out when its value is NoKey.
NoKey == "(no key)"
HardwareDevice(hostname, fam, mod) ==
  LET withFamily == IF fam = NoKey THEN ("hostname" :> hostname)
                    ELSE ("hostname" :> hostname) @@ ("family" :> fam)
  IN  IF mod = NoKey THEN withFamily ELSE withFamily @@ ("model" :> mod)

\* Family and model of the records handed to FilterDevicesByFamily: listed
\* as affected, listed as unaffected, a model under another family's code,
\* a family of neither table, and a record without the two keys.
FilterHardware ==
  {<<"220", "PA-220">>, <<"800", "PA-850">>, <<"400", "PA-460">>,
   <<"220", "PA-850">>, <<"1000", "PA-1000">>, <<NoKey, NoKey>>}

FilterInputs == {HardwareDevice("fw1", h[1], h[2]) : h \in FilterHardware}

FilterInit ==
  /\ ExtraIdle
  /\ pc = "filter"
  /\ deviceList \in SeqUpTo(FilterInputs, MaxDevices)
  /\ deviceList0 = deviceList
  /\ family = ""
  /\ model = ""
  /\ familyRet = FALSE
  /\ eligibleHardware = <<>>
  /\ ineligibleHardware = <<>>
  /\ parseCalls = <<>>
  /\ concurrency = 1
  /\ ParseIdle
  /\ splitRet = NoSplitRet
  /\ ClassifyIdle
  /\ MainIdle

\* family.go:21-33  the records are appended as they are and never written
CallFilterDevicesByFamily ==
  /\ pc = "filter"
  /\ eligibleHardware' = FilterDevicesByFamily(deviceList).affected
  /\ ineligibleHardware' = FilterDevicesByFamily(deviceList).unaffected
  /\ pc' = "returned"
  /\ UNCHANGED <<extraVars, classifyVars, deviceList, splitRet, mainVars, concurrency,
                 family, model, familyRet, parseCalls, parseVars, deviceList0>>

FilterNext == CallFilterDevicesByFamily

SpecFilter == FilterInit /\ [][FilterNext]_vars

\* ------------------------------------------ specification: one SplitDevices call

\* Versions of the devices handed to SplitDevices: not affected (10.1.12,
\* 11.2.0), affected (10.1.6-h2, 8.0.0, 10.1.6-h8) and of no known train
\* (10.3.0).
SplitVersions ==
  {"10.1.12", "11.2.0", "10.1.6-h2", "8.0.0", "10.1.6-h8", "10.3.0"}

\* Device records as main hands them over: parsed and annotated.
SplitInputs ==
  {WithParsedVersion(RawDevice(h, s), ParseVersion(s).v) :
     h \in Hostnames, s \in SplitVersions}

SplitInit ==
  /\ ExtraIdle
  /\ pc = "split"
  /\ deviceList \in SeqUpTo(SplitInputs, MaxDevices)
  /\ deviceList0 = deviceList
  /\ splitRet = NoSplitRet
  /\ ClassifyIdle
  /\ MainIdle
  /\ RestIdle

CallSplitDevices ==
  /\ pc = "split"
  /\ splitRet' = SplitDevices(deviceList)
  /\ deviceList' = DevicesAfterSplit(deviceList)
  /\ pc' = "returned"
  /\ UNCHANGED <<restVars, classifyVars, mainVars>>

SplitNext == CallSplitDevices

SpecSplit == SplitInit /\ [][SplitNext]_vars

\* ------------------------------------------------------ specification: main

\* Versions of the inventory main is run on: not affected (10.1.12), affected
\* (10.1.6-h2), of no known train (10.3.0), malformed (10.1).
MainVersions == {"10.1.12", "10.1.6-h2", "10.3.0", "10.1"}

MainInputs == {RawDevice(h, s) : h \in Hostnames, s \in MainVersions}

\* wildfire.RegisterWildFire: nil, or the error of a failed step.
RegisterWildFireErrors == {NoError, "failed to open connection: timeout"}

\* main:82  the list the registration loop ranges over
RegistrationCandidatesAffected(affected, unaffected) == affected
RegistrationCandidates(affected, unaffected) == unaffected

\* main:77  if !flags.ReportOnly: where main goes on after the split
PhaseAfterSplitAlwaysRegisters(flagReportOnly) == "spawn"
PhaseAfterSplit(flagReportOnly) ==
  IF flagReportOnly THEN "reportonly" ELSE "spawn"

\* main:79  make(chan string, len(unaffectedDevices))
ResultsCapacityUnbuffered(candidates) == 0
ResultsCapacity(candidates) == Len(candidates)

\* main:87-91  the message a worker sends
ResultMessage(dev, err) ==
  IF err # NoError
  THEN Get(dev, "hostname") \o ": Failed to register WildFire - " \o err
  ELSE Get(dev, "hostname") \o ": Successfully registered WildFire"

\* main:107-112  the first device with that hostname gets the result text
SetResultByHostname(devices, hostname, resultText) ==
  LET hits == {i \in 1..Len(devices) : Get(devices[i], "hostname") = hostname}
  IN  IF hits = {} THEN devices
      ELSE LET i == CHOOSE i \in hits : \A j \in hits : i <= j
           IN  [devices EXCEPT ![i] = SetKey(@, "result", resultText)]

MainInit ==
  /\ ExtraIdle
  /\ pc = "start"
  /\ deviceList \in SeqUpTo(MainInputs, MaxFleet)
  /\ deviceList0 = deviceList
  /\ reportOnly \in BOOLEAN
  /\ splitRet = NoSplitRet
  /\ ClassifyIdle
  /\ idx = 0
  /\ affectedDevices = <<>>
  /\ unaffectedDevices = <<>>
  /\ workers = <<>>
  /\ results = <<>>
  /\ closed = FALSE
  /\ processedResults = <<>>
  /\ registerCalls = <<>>
  /\ report = NoReport
  /\ concurrency \in 1..MaxConcurrency
  /\ FamilyIdle
  /\ ParseIdle

\* main:41-44
CheckDevices ==
  /\ pc = "start"
  /\ IF Len(deviceList) = 0
     THEN pc' = "exited" /\ idx' = idx
     ELSE pc' = "parse" /\ idx' = 1
  /\ UNCHANGED <<restVars, classifyVars, deviceList, splitRet, reportOnly,
                 affectedDevices, unaffectedDevices, workers, results, closed,
                 processedResults, registerCalls, report>>

\* main:47-59  one iteration of the parse loop
ParseDevice ==
  /\ pc = "parse"
  /\ LET parsed == ParseVersion(Get(deviceList[idx], "sw-version"))
     IN  IF parsed.err # NoError
         THEN pc' = "exited" /\ UNCHANGED <<deviceList, idx>>
         ELSE /\ deviceList' =
                   [deviceList EXCEPT ![idx] = WithParsedVersion(@, parsed.v)]
              /\ idx' = idx + 1
              /\ pc' = IF idx = Len(deviceList) THEN "split" ELSE "parse"
  /\ UNCHANGED <<restVars, classifyVars, splitRet, reportOnly, affectedDevices,
                 unaffectedDevices, workers, results, closed,
                 processedResults, registerCalls, report>>

\* main:62-77
SplitStep ==
  /\ pc = "split"
  /\ splitRet' = SplitDevices(deviceList)
  /\ IF splitRet'.err # NoError
     THEN pc' = "exited" /\ UNCHANGED <<affectedDevices, unaffectedDevices>>
     ELSE /\ affectedDevices' = splitRet'.affected
          /\ unaffectedDevices' = splitRet'.unaffected
          /\ pc' = PhaseAfterSplit(reportOnly)
  /\ deviceList' = DevicesAfterSplit(deviceList)
  /\ idx' = 1
  /\ UNCHANGED <<restVars, classifyVars, reportOnly, workers, results, closed,
                 processedResults, registerCalls, report>>

\* main:82-93  one iteration of the loop that starts the goroutines
Spawn ==
  /\ pc = "spawn"
  /\ LET candidates == RegistrationCandidates(affectedDevices, unaffectedDevices)
     IN  /\ idx <= Len(candidates)
         /\ workers' = Append(workers, [state |-> "spawned",
                                        dev |-> candidates[idx],
                                        err |-> NoError])
  /\ idx' = idx + 1
  /\ UNCHANGED <<pc, restVars, classifyVars, deviceList, splitRet, reportOnly,
                 affectedDevices, unaffectedDevices, results, closed,
                 processedResults, registerCalls, report>>

\* main:86  a goroutine calls RegisterWildFire
WorkerCall(w) ==
  /\ workers[w].state = "spawned"
  /\ workers' = [workers EXCEPT ![w].state = "running"]
  /\ registerCalls' = Append(registerCalls, workers[w].dev)
  /\ UNCHANGED <<pc, restVars, classifyVars, deviceList, splitRet, reportOnly, idx,
                 affectedDevices, unaffectedDevices, results, closed,
                 processedResults, report>>

\* wildfire.go:87-142  RegisterWildFire returns
WorkerReturn(w) ==
  /\ workers[w].state = "running"
  /\ \E e \in RegisterWildFireErrors :
       workers' = [workers EXCEPT ![w].state = "returned", ![w].err = e]
  /\ UNCHANGED <<pc, restVars, classifyVars, deviceList, splitRet, reportOnly, idx,
                 affectedDevices, unaffectedDevices, results, closed,
                 processedResults, registerCalls, report>>

\* main:85-91  the goroutine sends its message and, returning, calls wg.Done
WorkerSend(w) ==
  /\ workers[w].state = "returned"
  /\ Len(results) < ResultsCapacity(unaffectedDevices)
  /\ results' = Append(results, ResultMessage(workers[w].dev, workers[w].err))
  /\ workers' = [workers EXCEPT ![w].state = "done"]
  /\ UNCHANGED <<pc, restVars, classifyVars, deviceList, splitRet, reportOnly, idx,
                 affectedDevices, unaffectedDevices, closed, processedResults,
                 registerCalls, report>>

\* main:96-99  wg.Wait returns, close(results)
WaitAndClose ==
  /\ pc = "spawn"
  /\ idx > Len(RegistrationCandidates(affectedDevices, unaffectedDevices))
  /\ \A w \in 1..Len(workers) : workers[w].state = "done"
  /\ closed' = TRUE
  /\ pc' = "drain"
  /\ UNCHANGED <<restVars, classifyVars, deviceList, splitRet, reportOnly, idx,
                 affectedDevices, unaffectedDevices, workers, results,
                 processedResults, registerCalls, report>>

\* main:102-114  one iteration of for result := range results
Drain ==
  /\ pc = "drain"
  /\ IF results = <<>>
     THEN /\ pc' = "report"
          /\ UNCHANGED <<results, processedResults, unaffectedDevices>>
     ELSE LET result == Head(results)
              parts == SplitN2(result, ": ")
          IN  /\ results' = Tail(results)
              /\ processedResults' = Append(processedResults, result)
              /\ unaffectedDevices' =
                   IF Len(parts) = 2
                   THEN SetResultByHostname(unaffectedDevices, parts[1],
                                            parts[2])
                   ELSE unaffectedDevices
              /\ pc' = pc
  /\ UNCHANGED <<restVars, classifyVars, deviceList, splitRet, reportOnly, idx,
                 affectedDevices, workers, closed, registerCalls, report>>

\* main:115-120  report-only mode
SkipRegistration ==
  /\ pc = "reportonly"
  /\ unaffectedDevices' =
       [i \in 1..Len(unaffectedDevices) |->
          SetKey(unaffectedDevices[i], "result",
                 "Skipped WildFire registration (Report-only mode)")]
  /\ pc' = "report"
  /\ UNCHANGED <<restVars, classifyVars, deviceList, splitRet, reportOnly, idx,
                 affectedDevices, workers, results, closed, processedResults,
                 registerCalls, report>>

\* main:123-129  GeneratePDFReport, which may fail, then PrintResults
Report ==
  /\ pc = "report"
  /\ report' = [called |-> TRUE, unaffected |-> unaffectedDevices]
  /\ \E ok \in BOOLEAN : pc' = IF ok THEN "done" ELSE "exited"
  /\ UNCHANGED <<restVars, classifyVars, deviceList, splitRet, reportOnly, idx,
                 affectedDevices, unaffectedDevices, workers, results, closed,
                 processedResults, registerCalls>>

MainNext ==
  \/ CheckDevices
  \/ ParseDevice
  \/ SplitStep
  \/ Spawn
  \/ \E w \in 1..Len(workers) : WorkerCall(w)
  \/ \E w \in 1..Len(workers) : WorkerReturn(w)
  \/ \E w \in 1..Len(workers) : WorkerSend(w)
  \/ WaitAndClose
  \/ Drain
  \/ SkipRegistration
  \/ Report

SpecMain == MainInit /\ [][MainNext]_vars

\* The steps of the registration phase: those of the main goroutine and
\* those of the registration goroutines.
RegistrationPhase ==
  \/ Spawn
  \/ WaitAndClose
  \/ Drain
  \/ \E w \in 1..Len(workers) :
       WorkerCall(w) \/ WorkerReturn(w) \/ WorkerSend(w)

\* While a goroutine can take a step the Go scheduler runs one, and
\* RegisterWildFire returns: its connection is opened with a socket and an
\* operation timeout of 45 s (wildfire.go:95-96).
SpecMainLive ==
  /\ MainInit
  /\ [][MainNext]_vars
  /\ WF_vars(RegistrationPhase)

\* ------------------------------- specification: main with the family filter

\* filters.SplitDevicesByVersion, named for what main does with its results:
\* the records that need no upgrade first, then those that need one.
SplitDevicesByVersion(devices) ==
  LET r == SplitDevices(devices)
  IN  [supported |-> r.unaffected, unsupported |-> r.affected, err |-> r.err,
       calls |-> r.calls]

\* Hardware and versions of the inventory: an affected family (220), an
\* unaffected one (400) and an unknown one (1000); versions as in MainVersions.
FamilyMainHardware ==
  {<<"220", "PA-220">>, <<"400", "PA-460">>, <<"1000", "PA-1000">>}
FamilyMainInputs ==
  {HardwareDevice("fw1", h[1], h[2]) @@ ("sw-version" :> s) :
     h \in FamilyMainHardware, s \in MainVersions}

\* main:274  positions in the inventory of the records of eligibleHardware,
\* which are the inventory's own maps
EligiblePositions(devices) ==
  SelectSeq([i \in 1..Len(devices) |-> i],
            LAMBDA i : IsAffectedFamily(Get(devices[i], "family"),
                                        Get(devices[i], "model")))

\* main:277  the list the parse loop ranges over
ParseCandidatesWholeInventory(eligible, all) == all
ParseCandidates(eligible, all) == eligible

FamilyMainInit ==
  /\ ExtraIdle
  /\ pc = "start"
  /\ deviceList \in SeqUpTo(FamilyMainInputs, MaxFleet)
  /\ deviceList0 = deviceList
  /\ reportOnly \in BOOLEAN
  /\ concurrency \in 1..MaxConcurrency
  /\ splitRet = NoSplitRet
  /\ ClassifyIdle
  /\ FamilyIdle
  /\ ParseIdle
  /\ idx = 0
  /\ affectedDevices = <<>>
  /\ unaffectedDevices = <<>>
  /\ workers = <<>>
  /\ results = <<>>
  /\ closed = FALSE
  /\ processedResults = <<>>
  /\ registerCalls = <<>>
  /\ report = NoReport

\* main:265-274  the empty inventory is fatal; then FilterDevicesByFamily
FilterStep ==
  /\ pc = "start"
  /\ IF Len(deviceList) = 0
     THEN /\ pc' = "exited"
          /\ UNCHANGED <<idx, eligibleHardware, ineligibleHardware>>
     ELSE /\ eligibleHardware' = FilterDevicesByFamily(deviceList).affected
          /\ ineligibleHardware' = FilterDevicesByFamily(deviceList).unaffected
          /\ idx' = 1
          /\ pc' = "parse"
  /\ UNCHANGED <<extraVars, classifyVars, deviceList, splitRet, reportOnly,
                 affectedDevices, unaffectedDevices, workers, results, closed,
                 processedResults, registerCalls, report, concurrency, family,
                 model, familyRet, parseCalls, parseVars, deviceList0>>

\* main:277-289  one iteration of the parse loop, or its end
ParseEligible ==
  /\ pc = "parse"
  /\ LET candidates == ParseCandidates(eligibleHardware, deviceList)
     IN  IF idx > Len(candidates)
         THEN /\ pc' = "split"
              /\ idx' = 1
              /\ UNCHANGED <<deviceList, eligibleHardware, parseCalls>>
         ELSE LET p == ParseVersion(Get(candidates[idx], "sw-version"))
                  positions == EligiblePositions(deviceList)
                  at == IF idx <= Len(positions) THEN positions[idx] ELSE 0
              IN  /\ parseCalls' = Append(parseCalls, candidates[idx])
                  /\ IF p.err # NoError
                     THEN /\ pc' = "exited"
                          /\ UNCHANGED <<deviceList, eligibleHardware, idx>>
                     ELSE /\ eligibleHardware' =
                               [i \in 1..Len(eligibleHardware) |->
                                  IF i = idx
                                  THEN WithParsedVersion(eligibleHardware[i], p.v)
                                  ELSE eligibleHardware[i]]
                          /\ deviceList' =
                               [i \in 1..Len(deviceList) |->
                                  IF i = at
                                  THEN WithParsedVersion(deviceList[i], p.v)
                                  ELSE deviceList[i]]
                          /\ idx' = idx + 1
                          /\ pc' = pc
  /\ UNCHANGED <<extraVars, classifyVars, splitRet, reportOnly, affectedDevices,
                 unaffectedDevices, workers, results, closed,
                 processedResults, registerCalls, report, concurrency, family,
                 model, familyRet, ineligibleHardware, parseVars, deviceList0>>

\* main:292-308  SplitDevicesByVersion(eligibleHardware); its first result
\* is registrationCandidates
SplitEligible ==
  /\ pc = "split"
  /\ LET r == SplitDevicesByVersion(eligibleHardware)
     IN  /\ splitRet' = SplitRet(r.unsupported, r.supported, r.err, r.calls)
         /\ parseCalls' = parseCalls \o SubSeq(eligibleHardware, 1, r.calls)
         /\ IF r.err # NoError
            THEN /\ pc' = "exited"
                 /\ UNCHANGED <<affectedDevices, unaffectedDevices>>
            ELSE /\ affectedDevices' = r.unsupported
                 /\ unaffectedDevices' = r.supported
                 /\ pc' = PhaseAfterSplit(reportOnly)
  /\ idx' = 1
  /\ UNCHANGED <<extraVars, classifyVars, deviceList, reportOnly, workers, results,
                 closed, processedResults, registerCalls, report, concurrency,
                 family, model, familyRet, eligibleHardware,
                 ineligibleHardware, parseVars, deviceList0>>

FamilyMainNext ==
  \/ FilterStep
  \/ ParseEligible
  \/ SplitEligible
  \/ Spawn
  \/ \E w \in 1..Len(workers) : WorkerCall(w)
  \/ \E w \in 1..Len(workers) : WorkerReturn(w)
  \/ \E w \in 1..Len(workers) : WorkerSend(w)
  \/ WaitAndClose
  \/ Drain
  \/ SkipRegistration
  \/ Report

SpecFamilyMain == FamilyMainInit /\ [][FamilyMainNext]_vars

\* ------------------------------------------------- claims on the classifier

\* The trains of the patch table, as (major, feature), and the three that
\* carry a "-gp" sequence.
TrackedTrains ==
  {<<8, 1>>, <<9, 0>>, <<9, 1>>, <<10, 0>>, <<10, 1>>, <<10, 2>>, <<11, 0>>,
   <<11, 1>>}
VariantTrains == {<<10, 2>>, <<11, 0>>, <<11, 1>>}

Train(v) == <<v.Major, v.Feature>>
BeyondCeiling(v) == v.Major > 11 \/ (v.Major = 11 /\ v.Feature >= 2)
OlderThan81(v) == v.Major < 8 \/ (v.Major = 8 /\ v.Feature = 0)
TrainName(v) == ToString(v.Major) \o "." \o ToString(v.Feature)

\* The key of the sequence a tracked train is classified against.
TrainKey(v, gp) ==
  IF gp /\ Train(v) \in VariantTrains THEN TrainName(v) \o "-gp"
  ELSE TrainName(v)
TrainEntries(v, gp) == MinimumPatchedVersions[TrainKey(v, gp)]
EntryName(key, e) ==
  key \o "." \o ToString(e.Maintenance) \o "-h" \o ToString(e.Hotfix)

Returned == pc = "returned"
Tracked == Returned /\ Train(version) \in TrackedTrains

\* C1: a version below the 11.2 ceiling whose train has no patch-table entry
\* and that is not older than 8.1 gets the "unknown feature release" error,
\* and is never reported as not affected without an error.
C1_UnknownReleaseIsError ==
  (/\ Returned
   /\ ~BeyondCeiling(version)
   /\ Train(version) \notin TrackedTrains
   /\ ~OlderThan81(version))
    => /\ ret.err # NoError
       /\ ret.err = "unknown feature release: " \o TrainName(version)
       /\ ~ret.isAffected
       /\ ret.minUpdateRelease = ""

C1_Witness ==
  /\ Returned
  /\ version = [Major |-> 10, Feature |-> 3, Maintenance |-> 0, Hotfix |-> 0]
  /\ isGlobalProtect
  /\ ret.err = "unknown feature release: 10.3"

\* C2: a device of a tracked train whose maintenance equals a tracked
\* entry's maintenance is affected iff its hotfix is less than that entry's
\* hotfix, and when affected the minimum update names that same entry.
C2_EqualMaintenanceDecidedByHotfix ==
  Tracked =>
    \A i \in 1..Len(TrainEntries(version, isGlobalProtect)) :
      LET e == TrainEntries(version, isGlobalProtect)[i]
      IN  e.Maintenance = version.Maintenance
            => /\ ret.err = NoError
               /\ ret.isAffected <=> version.Hotfix < e.Hotfix
               /\ ret.isAffected
                    => ret.minUpdateRelease
                         = EntryName(TrainKey(version, isGlobalProtect), e)

\* Index of the first entry whose maintenance is at least the device's, or 0.
FirstAtLeast(entries, maintenance) ==
  LET S == {i \in 1..Len(entries) : entries[i].Maintenance >= maintenance}
  IN  IF S = {} THEN 0 ELSE CHOOSE i \in S : \A j \in S : i <= j

\* C3: the scan is decided by the first entry whose maintenance is greater
\* than or equal to the device's: it examines no entry after that one, and
\* that entry alone fixes the verdict and the minimum update.
C3_ScanStopsAtFirstBoundary ==
  Tracked =>
    LET entries == TrainEntries(version, isGlobalProtect)
        first == FirstAtLeast(entries, version.Maintenance)
    IN  first # 0
          => /\ ret.scanned = first
             /\ ret.isAffected
                  <=> \/ version.Maintenance < entries[first].Maintenance
                      \/ version.Hotfix < entries[first].Hotfix
             /\ ret.isAffected
                  => ret.minUpdateRelease
                       = EntryName(TrainKey(version, isGlobalProtect),
                                   entries[first])

\* C4: a device of a tracked train whose maintenance matches no tracked entry
\* and is lower than at least one is affected, and its minimum update is the
\* lowest tracked entry whose maintenance exceeds the device's.
C4_UntrackedMaintenanceJumpsForward ==
  Tracked =>
    LET entries == TrainEntries(version, isGlobalProtect)
        above == {i \in 1..Len(entries) :
                    entries[i].Maintenance > version.Maintenance}
    IN  (/\ \A i \in 1..Len(entries) :
              entries[i].Maintenance # version.Maintenance
         /\ above # {})
          => LET lowest == CHOOSE i \in above :
                             \A j \in above :
                               entries[i].Maintenance <= entries[j].Maintenance
             IN  /\ ret.isAffected
                 /\ ret.err = NoError
                 /\ ret.minUpdateRelease
                      = EntryName(TrainKey(version, isGlobalProtect),
                                  entries[lowest])

C4_Witness ==
  /\ Returned
  /\ version = [Major |-> 10, Feature |-> 2, Maintenance |-> 5, Hotfix |-> 9]
  /\ ~isGlobalProtect
  /\ ret.isAffected
  /\ ret.minUpdateRelease = "10.2.6-h1"

\* C5: every version older than 8.1 is affected with minimum update "8.1.0"
\* and no error, whatever the variant flag.
C5_LegacyFallback ==
  (Returned /\ OlderThan81(version))
    => /\ ret.isAffected
       /\ ret.minUpdateRelease = "8.1.0"
       /\ ret.err = NoError

C5_Witness ==
  /\ Returned
  /\ version = [Major |-> 8, Feature |-> 0, Maintenance |-> 0, Hotfix |-> 0]
  /\ isGlobalProtect
  /\ ret.isAffected
  /\ ret.minUpdateRelease = "8.1.0"

\* C6: every version at or beyond 11.2 is not affected, with an empty minimum
\* update and no error, for every maintenance, hotfix and variant flag, and
\* the patch table is not read.
C6_CeilingExempt ==
  (Returned /\ BeyondCeiling(version))
    => /\ ~ret.isAffected
       /\ ret.minUpdateRelease = ""
       /\ ret.err = NoError
       /\ ret.consulted = ""

C6_Witness ==
  /\ Returned
  /\ version = [Major |-> 11, Feature |-> 2, Maintenance |-> 0, Hotfix |-> 0]
  /\ isGlobalProtect
  /\ ~ret.isAffected
  /\ ret.err = NoError

\* C7: with the variant flag set the "-gp" sequence is read exactly for the
\* trains 10.2, 11.0 and 11.1; for every version of any other train the
\* result is the one the flag unset gives.
C7_VariantOnlyForThreeTrains ==
  (Returned /\ isGlobalProtect)
    => LET plain == IsAffectedVersion(device, FALSE)
       IN  IF Train(version) \in VariantTrains
           THEN ret.consulted = TrainName(version) \o "-gp"
           ELSE /\ ret.consulted \in {"", TrainName(version)}
                /\ ret.isAffected = plain.isAffected
                /\ ret.minUpdateRelease = plain.minUpdateRelease
                /\ ret.err = plain.err

C7_Witness ==
  /\ Returned
  /\ isGlobalProtect
  /\ version = [Major |-> 10, Feature |-> 2, Maintenance |-> 5, Hotfix |-> 0]
  /\ ret.consulted = "10.2-gp"
  /\ ret.minUpdateRelease = "10.2-gp.5-h6"
  /\ IsAffectedVersion(device, FALSE).minUpdateRelease = "10.2.6-h1"

\* The version the returned minimum update names: the entry of the device's
\* own sequence with that name, or 8.1.0 for the legacy fallback.
NamedEntries ==
  IF Train(version) \in TrackedTrains
  THEN {e \in Range(TrainEntries(version, isGlobalProtect)) :
          EntryName(TrainKey(version, isGlobalProtect), e)
            = ret.minUpdateRelease}
  ELSE {}
Recommended ==
  IF ret.minUpdateRelease = "8.1.0"
  THEN {[Major |-> 8, Feature |-> 1, Maintenance |-> 0, Hotfix |-> 0]}
  ELSE {[Major |-> version.Major, Feature |-> version.Feature,
         Maintenance |-> e.Maintenance, Hotfix |-> e.Hotfix] :
          e \in NamedEntries}

\* C26: when a device is classified as affected, the minimum update names a
\* version that IsAffectedVersion, called with the same flag, classifies as
\* not affected.
C26_RecommendationIsEligible ==
  (Returned /\ ret.err = NoError /\ ret.isAffected)
    => /\ Recommended # {}
       /\ \A r \in Recommended :
            LET again == IsAffectedVersion(WithParsedVersion(EmptyMap, r),
                                           isGlobalProtect)
            IN  again.err = NoError /\ ~again.isAffected

\* C23: every sequence of MinimumPatchedVersions is non-empty, its
\* maintenance values increase strictly from one entry to the next, and no
\* maintenance or hotfix value is negative; so does the sequence a
\* classification consulted.
C23_TableStrictlyIncreasing ==
  Returned
    => /\ \A k \in DOMAIN MinimumPatchedVersions :
            LET seq == MinimumPatchedVersions[k]
            IN  /\ Len(seq) > 0
                /\ \A i \in 1..Len(seq) :
                     /\ seq[i].Maintenance >= 0
                     /\ seq[i].Hotfix >= 0
                     /\ \A j \in (i + 1)..Len(seq) :
                          seq[i].Maintenance < seq[j].Maintenance
       /\ ret.scanned > 1
            => MinimumPatchedVersions[ret.consulted][ret.scanned - 1].Maintenance
                 < MinimumPatchedVersions[ret.consulted][ret.scanned].Maintenance

C23_Witness ==
  /\ Returned
  /\ ret.consulted = "10.2-gp"
  /\ ret.scanned = 10
  /\ MinimumPatchedVersions[ret.consulted][9] = MPV(8, 3)
  /\ MinimumPatchedVersions[ret.consulted][10] = MPV(9, 1)

\* The keys of the classified record that are missing or hold no number.
UnreadableKeys ==
  {k \in ParsedVersionKeys : k \notin DOMAIN device \/ device[k] \in NotNumbers}

\* C12: IsAffectedVersion returns an error for a record one of whose four
\* version components is missing or not a number; it does not go on with a
\* default value in its place.
C12_UnreadableComponentIsError ==
  (Returned /\ UnreadableKeys # {}) => ret.err # NoError

\* ------------------------------------------------------ claims on ParseVersion

\* The pieces that are decimal integers, with their values.
IntegerPieces ==
  ("10" :> 10) @@ ("1" :> 1) @@ ("0" :> 0) @@ ("2" :> 2) @@ ("-1" :> 0 - 1)
    @@ ("-3" :> 0 - 3)

\* The parsed string has fewer than three pieces, or one of its first three
\* is no integer, or it has a hotfix part that is no integer.
Malformed ==
  \/ Len(segments) < 3
  \/ \E i \in 1..3 : segments[i] \notin DOMAIN IntegerPieces
  \/ (hotfixPart # NoHotfixPart /\ hotfixPart \notin DOMAIN IntegerPieces)

\* C19: ParseVersion returns an error, and no Version, when the string has
\* fewer than three dot-separated pieces, when its major, feature or
\* maintenance piece is no integer, or when a hotfix part follows "-h" and
\* is no integer; otherwise it returns the Version of the pieces' values,
\* with hotfix 0 when the string has no "-h" part.
C19_MalformedIsRejected ==
  Returned
    => /\ Malformed => (parseRet.err # NoError /\ parseRet.v = NoVersion)
       /\ ~Malformed
            => /\ parseRet.err = NoError
               /\ parseRet.v.Major = IntegerPieces[segments[1]]
               /\ parseRet.v.Feature = IntegerPieces[segments[2]]
               /\ parseRet.v.Maintenance = IntegerPieces[segments[3]]
               /\ hotfixPart = NoHotfixPart => parseRet.v.Hotfix = 0
               /\ hotfixPart # NoHotfixPart
                    => parseRet.v.Hotfix = IntegerPieces[hotfixPart]

C19_Witness ==
  /\ Returned
  /\ versionString = "10.1.0-hx"
  /\ parseRet.err = "invalid hotfix version: x"

\* C20: every Version ParseVersion returns has a major, feature,
\* maintenance and hotfix of at least 0; a string with a negative piece is
\* rejected.
C20_FieldsNotNegative ==
  (Returned /\ parseRet.err = NoError)
    => /\ parseRet.v.Major >= 0
       /\ parseRet.v.Feature >= 0
       /\ parseRet.v.Maintenance >= 0
       /\ parseRet.v.Hotfix >= 0

\* C21: a version of non-negative fields written as
\* "major.feature.maintenance-hhotfix" is parsed by ParseVersion without an
\* error into the same four fields.
C21_FormatThenParse ==
  Returned => (parseRet.err = NoError /\ parseRet.v = version)

C21_Witness ==
  /\ Returned
  /\ version = [Major |-> 10, Feature |-> 1, Maintenance |-> 12,
                Hotfix |-> 17]
  /\ versionString = "10.1.12-h17"
  /\ parseRet.v = version

\* The place of a version in the order by major, then feature, then
\* maintenance, then hotfix.
Rank(v) ==
  LET base == MaxCompared + 2
  IN  ((v.Major * base + v.Feature) * base + v.Maintenance) * base + v.Hotfix

\* C22: of a.IsLessThan(b), b.IsLessThan(a) and a = b exactly one holds, and
\* a.IsLessThan(b) is the order by major, then feature, then maintenance,
\* then hotfix.
C22_OrderIsTotal ==
  Returned
    => /\ Cardinality({x \in {"ab", "ba", "eq"} :
                         \/ (x = "ab" /\ lessRet.ab)
                         \/ (x = "ba" /\ lessRet.ba)
                         \/ (x = "eq" /\ version = other)}) = 1
       /\ lessRet.ab <=> Rank(version) < Rank(other)
       /\ lessRet.ba <=> Rank(other) < Rank(version)

C22_Witness ==
  /\ Returned
  /\ version = [Major |-> 1, Feature |-> 2, Maintenance |-> 0, Hotfix |-> 2]
  /\ other = [Major |-> 1, Feature |-> 2, Maintenance |-> 1, Hotfix |-> 0]
  /\ lessRet = [ab |-> TRUE, ba |-> FALSE]

\* ------------------------------------------------------ claims on filterDevices

\* The filter strings without the white space around them.
Trimmed ==
  ("fw1" :> "fw1") @@ (" fw" :> "fw") @@ ("dc1\t" :> "dc1") @@ (" " :> "")
    @@ ("x" :> "x")

\* The record's hostname starts with one of the trimmed filters.
Selected(dev) ==
  \E j \in 1..Len(filters) :
    LET prefix == Trimmed[filters[j]]
        hostname == IF "hostname" \in DOMAIN dev THEN dev["hostname"] ELSE ""
    IN  \E rest \in {SubSeq(hostname, n, Len(hostname)) :
                       n \in 1..(Len(hostname) + 1)} :
          hostname = prefix \o rest

\* C25: filterDevices returns the input records whose hostname starts with
\* one of the trimmed filters, in input order and each once; with no filter
\* it returns the whole list; the input list is left as it was.
C25_HostnamePrefixFilter ==
  Returned
    => /\ deviceList = deviceList0
       /\ filters = <<>> => filteredDevices = deviceList0
       /\ filters # <<>> => filteredDevices = SelectSeq(deviceList0, Selected)

C25_Witness ==
  /\ Returned
  /\ filters = <<" fw", "fw1">>
  /\ Len(deviceList0) = 3
  /\ Get(deviceList0[1], "hostname") = "fw12"
  /\ Get(deviceList0[2], "hostname") = "dc1"
  /\ Get(deviceList0[3], "hostname") = "fw1"
  /\ filteredDevices = <<deviceList0[1], deviceList0[3]>>

\* ------------------------------------------------ claims on the family filter

\* The model names the affected table lists under a family code.
ListedUnder(fam) ==
  IF fam \in DOMAIN AffectedFamilies THEN Range(AffectedFamilies[fam]) ELSE {}

\* C14: IsAffectedFamily(family, model) is true exactly when the family is a
\* key of AffectedFamilies and the model is listed under that key; a family
\* of UnaffectedFamilies, an unknown family, and a model listed only under
\* another family all give false.
C14_FamilyAndModelListed ==
  Returned
    => /\ familyRet <=> model \in ListedUnder(family)
       /\ family \in DOMAIN UnaffectedFamilies => ~familyRet
       /\ family \notin DOMAIN AffectedFamilies => ~familyRet

C14_Witness ==
  /\ Returned
  /\ family = "220"
  /\ model = "PA-850"
  /\ ~familyRet

\* The positions of the input list whose record the affected table lists
\* (b = TRUE), or does not (b = FALSE), in order.
HardwarePlaced(b) ==
  SelectSeq([i \in 1..Len(deviceList0) |-> i],
            LAMBDA i : (Get(deviceList0[i], "model")
                          \in ListedUnder(Get(deviceList0[i], "family"))) = b)

\* C15: FilterDevicesByFamily puts every input record in exactly one of its
\* two lists, in the affected one exactly when IsAffectedFamily of its
\* family and model holds; each list keeps the input order, and the records
\* are the input records, unmodified.
C15_FamilyPartitionInOrder ==
  pc = "returned"
    => /\ deviceList = deviceList0
       /\ Len(eligibleHardware) + Len(ineligibleHardware) = Len(deviceList0)
       /\ eligibleHardware
            = [j \in 1..Len(HardwarePlaced(TRUE)) |->
                 deviceList0[HardwarePlaced(TRUE)[j]]]
       /\ ineligibleHardware
            = [j \in 1..Len(HardwarePlaced(FALSE)) |->
                 deviceList0[HardwarePlaced(FALSE)[j]]]

C15_Witness ==
  /\ pc = "returned"
  /\ Len(deviceList0) = 3
  /\ Get(deviceList0[1], "family") = "1000"
  /\ Get(deviceList0[2], "model") = "PA-850"
  /\ Get(deviceList0[2], "family") = "800"
  /\ "family" \notin DOMAIN deviceList0[3]
  /\ eligibleHardware = <<deviceList0[2]>>
  /\ ineligibleHardware = <<deviceList0[1], deviceList0[3]>>

\* The records of the inventory, as loaded, that the affected table lists,
\* and those of them whose version ParseVersion rejects or IsAffectedVersion
\* returns an error for.
Eligible ==
  {i \in 1..Len(deviceList0) :
     Get(deviceList0[i], "model") \in ListedUnder(Get(deviceList0[i], "family"))}
BadVersion(i) ==
  LET p == ParseVersion(Get(deviceList0[i], "sw-version"))
  IN  \/ p.err # NoError
      \/ IsAffectedVersion(WithParsedVersion(deviceList0[i], p.v), FALSE).err
           # NoError

\* C13: in main the family filter runs before the version handling: every
\* record ParseVersion or the version classification is applied to is one
\* the affected table lists, and the run aborts before the report only when
\* such a record has a version that cannot be parsed or classified.
C13_VersionHandlingOnlyForEligible ==
  /\ \A c \in 1..Len(parseCalls) :
       /\ Get(parseCalls[c], "model")
            \in ListedUnder(Get(parseCalls[c], "family"))
       /\ \E i \in Eligible :
            Get(deviceList0[i], "sw-version")
              = Get(parseCalls[c], "sw-version")
  /\ Len(parseCalls) <= 2 * Cardinality(Eligible)
  /\ (pc = "exited" /\ ~report.called /\ Len(deviceList0) > 0)
       => \E i \in Eligible : BadVersion(i)

C13_Witness ==
  /\ pc = "done"
  /\ Len(deviceList0) = 2
  /\ Get(deviceList0[1], "family") = "400"
  /\ Get(deviceList0[1], "sw-version") = "10.1"
  /\ Get(deviceList0[2], "family") = "220"
  /\ Get(deviceList0[2], "sw-version") = "10.1.12"
  /\ Len(parseCalls) = 2
  /\ "parsed_version_major" \notin DOMAIN deviceList[1]
  /\ "parsed_version_major" \in DOMAIN deviceList[2]

\* C24: AffectedFamilies and UnaffectedFamilies share no key and their keys
\* together are the 18 expected family codes, so every known family code is
\* a key of exactly one of the two tables.
C24_FamilyTablesPartition ==
  LET expectedFamilies ==
        {"200", "220", "3000", "3200", "500", "5000", "5200", "7000", "7000b",
         "800", "vm", "vmarm", "400", "1400", "3400", "5400", "5400f", "7500"}
  IN  Returned
        => /\ DOMAIN AffectedFamilies \cap DOMAIN UnaffectedFamilies = {}
           /\ DOMAIN AffectedFamilies \cup DOMAIN UnaffectedFamilies
                = expectedFamilies
           /\ Cardinality(expectedFamilies) = 18
           /\ family \in expectedFamilies
                => (family \in DOMAIN AffectedFamilies)
                     # (family \in DOMAIN UnaffectedFamilies)

C24_Witness ==
  /\ Returned
  /\ family = "7000b"
  /\ family \in DOMAIN AffectedFamilies
  /\ family \notin DOMAIN UnaffectedFamilies
  /\ model = "PA-7080"
  /\ familyRet

\* --------------------------------------------------- claims on SplitDevices

\* The devices of the list IsAffectedVersion returns an error for.
Failing ==
  {i \in 1..Len(deviceList) : IsAffectedVersion(deviceList[i], FALSE).err # NoError}
FirstFailing == CHOOSE i \in Failing : \A j \in Failing : i <= j

\* C9: when IsAffectedVersion returns an error for a device of the list,
\* SplitDevices returns neither list, and an error naming that device's
\* hostname; the devices after it are not classified.
C9_ErrorAbortsTheBatch ==
  (pc = "returned" /\ Failing # {})
    => /\ splitRet.affected = <<>>
       /\ splitRet.unaffected = <<>>
       /\ splitRet.err
            = "error checking device "
                \o deviceList[FirstFailing]["hostname"] \o ": "
                \o IsAffectedVersion(deviceList[FirstFailing], FALSE).err
       /\ splitRet.calls = FirstFailing

C9_Witness ==
  /\ pc = "returned"
  /\ Len(deviceList) = 3
  /\ Failing # {}
  /\ FirstFailing = 2
  /\ ~IsAffectedVersion(deviceList[1], FALSE).isAffected
  /\ deviceList[1]["hostname"] = "fw1"
  /\ splitRet.err = "error checking device fw2: unknown feature release: 10.3"

\* The indices of the list, in order, that IsAffectedVersion reports as
\* affected (b = TRUE) or as not affected (b = FALSE).
Placed(b) ==
  SelectSeq([i \in 1..Len(deviceList) |-> i],
            LAMBDA i : IsAffectedVersion(deviceList[i], FALSE).isAffected = b)

\* C10: when no device errors, every input device is placed exactly once:
\* the affected ones, in input order, in the affected list with
\* minimumUpdateRelease set to the classifier's minimum update, the others,
\* in input order, in the unaffected list with result "Not affected".
C10_PartitionInOrder ==
  (pc = "returned" /\ Failing = {})
    => /\ splitRet.err = NoError
       /\ Len(splitRet.affected) + Len(splitRet.unaffected) = Len(deviceList)
       /\ Len(splitRet.affected) = Len(Placed(TRUE))
       /\ Len(splitRet.unaffected) = Len(Placed(FALSE))
       /\ \A j \in 1..Len(Placed(TRUE)) :
            LET d == deviceList[Placed(TRUE)[j]]
            IN  /\ splitRet.affected[j]["minimumUpdateRelease"]
                     = IsAffectedVersion(d, FALSE).minUpdateRelease
                /\ \A k \in DOMAIN d \ {"minimumUpdateRelease"} :
                     splitRet.affected[j][k] = d[k]
                /\ DOMAIN splitRet.affected[j]
                     = DOMAIN d \cup {"minimumUpdateRelease"}
       /\ \A j \in 1..Len(Placed(FALSE)) :
            LET d == deviceList[Placed(FALSE)[j]]
            IN  /\ splitRet.unaffected[j]["result"] = "Not affected"
                /\ \A k \in DOMAIN d \ {"result"} :
                     splitRet.unaffected[j][k] = d[k]
                /\ DOMAIN splitRet.unaffected[j] = DOMAIN d \cup {"result"}

C10_Witness ==
  /\ pc = "returned"
  /\ Failing = {}
  /\ Len(deviceList) = 3
  /\ Placed(TRUE) = <<1, 3>>
  /\ deviceList[1]["sw-version"] = "10.1.6-h2"
  /\ deviceList[3]["sw-version"] = "8.0.0"
  /\ Len(splitRet.affected) = 2
  /\ splitRet.affected[1]["minimumUpdateRelease"] = "10.1.6-h8"
  /\ splitRet.affected[2]["minimumUpdateRelease"] = "8.1.0"
  /\ Len(splitRet.unaffected) = 1
  /\ splitRet.unaffected[1]["result"] = "Not affected"

\* Every key of the input records is a key of their copies in the lists
\* SplitDevices returned.
PlacedOf(devices, b) ==
  SelectSeq([i \in 1..Len(devices) |-> i],
            LAMBDA i : IsAffectedVersion(devices[i], FALSE).isAffected = b)
KeysKept ==
  /\ \A j \in 1..Len(PlacedOf(deviceList0, TRUE)) :
       DOMAIN deviceList0[PlacedOf(deviceList0, TRUE)[j]]
         \subseteq DOMAIN splitRet.affected[j]
  /\ \A j \in 1..Len(PlacedOf(deviceList0, FALSE)) :
       DOMAIN deviceList0[PlacedOf(deviceList0, FALSE)[j]]
         \subseteq DOMAIN splitRet.unaffected[j]

\* C11: a SplitDevices call leaves every record of its input list with the
\* keys and values it had before the call, also when it returns an error,
\* and when it succeeds every key of an input record is a key of its copy in
\* the output.
C11_InputUntouched ==
  pc = "returned"
    => /\ deviceList = deviceList0
       /\ (splitRet.err = NoError
             => /\ Len(splitRet.affected) = Len(PlacedOf(deviceList0, TRUE))
                /\ Len(splitRet.unaffected)
                     = Len(PlacedOf(deviceList0, FALSE))
                /\ KeysKept)

C11_Witness ==
  /\ pc = "returned"
  /\ splitRet.err = NoError
  /\ Len(splitRet.affected) = 1
  /\ Len(splitRet.unaffected) = 1
  /\ "minimumUpdateRelease" \in DOMAIN splitRet.affected[1]
  /\ "result" \in DOMAIN splitRet.unaffected[1]
  /\ \A i \in 1..2 :
       DOMAIN deviceList0[i]
         = {"hostname", "sw-version", "parsed_version_major",
            "parsed_version_feature", "parsed_version_maintenance",
            "parsed_version_hotfix"}

\* ------------------------------------------------------------ claims on main

\* The devices of the inventory whose sw-version ParseVersion rejects, and
\* those it accepts but IsAffectedVersion returns an error for.
Unparsable ==
  {i \in 1..Len(deviceList) :
     ParseVersion(Get(deviceList[i], "sw-version")).err # NoError}
Unclassifiable ==
  {i \in 1..Len(deviceList) \ Unparsable :
     IsAffectedVersion(
       WithParsedVersion(deviceList[i],
                         ParseVersion(Get(deviceList[i], "sw-version")).v),
       FALSE).err # NoError}

SkippedText == "Skipped WildFire registration (Report-only mode)"

\* C16: with -reportonly no goroutine is started and RegisterWildFire is
\* never called, and when the report is generated every record of the
\* unaffected list carries the result "Skipped WildFire registration
\* (Report-only mode)".
C16_ReportOnlySkipsRegistration ==
  reportOnly
    => /\ registerCalls = <<>>
       /\ workers = <<>>
       /\ pc \notin {"spawn", "drain"}
       /\ (pc = "report" \/ report.called)
            => /\ Len(unaffectedDevices) = Len(splitRet.unaffected)
               /\ \A i \in 1..Len(unaffectedDevices) :
                    Get(unaffectedDevices[i], "result") = SkippedText
       /\ report.called
            => /\ Len(report.unaffected) = Len(splitRet.unaffected)
               /\ \A i \in 1..Len(report.unaffected) :
                    Get(report.unaffected[i], "result") = SkippedText

C16_Witness ==
  /\ reportOnly
  /\ pc = "done"
  /\ report.called
  /\ Len(report.unaffected) = 2
  /\ registerCalls = <<>>
  /\ Get(report.unaffected[1], "result") = SkippedText

\* The goroutines that are inside RegisterWildFire.
Running == {w \in 1..Len(workers) : workers[w].state = "running"}

\* C17: at every moment the number of RegisterWildFire calls in progress is
\* at most the value of the -concurrency flag.
C17_RegistrationsCappedByFlag == Cardinality(Running) <= concurrency

\* C18: once the registration phase has begun every goroutine that was
\* started delivers its result, whether its device answered or the call ran
\* into its timeout, and main gets past wg.Wait and the result loop to the
\* generation of the report.
C18_RegistrationPhaseEnds ==
  /\ (pc = "spawn") ~> (pc = "report")
  /\ [](pc \in {"drain", "report"} /\ ~reportOnly
         => /\ Len(workers) = Len(unaffectedDevices)
            /\ \A w \in 1..Len(workers) : workers[w].state = "done"
            /\ Len(results) + Len(processedResults) = Len(workers))

C18_Witness ==
  /\ pc = "report"
  /\ ~reportOnly
  /\ Len(workers) = 2
  /\ workers[1].err # NoError
  /\ workers[2].err = NoError
  /\ \A w \in 1..2 : workers[w].state = "done"
  /\ Len(processedResults) = 2

OutcomeText(w) ==
  IF workers[w].err # NoError
  THEN "Failed to register WildFire - " \o workers[w].err
  ELSE "Successfully registered WildFire"

\* C27: when main has read every message of the results channel, the result
\* field of each registration candidate is the outcome of the registration
\* that was run for that very record, in whatever order the goroutines sent
\* their messages and also when two candidates carry the same hostname.
C27_ResultIsOwnOutcome ==
  (pc = "report" /\ ~reportOnly)
    => /\ Len(workers) = Len(unaffectedDevices)
       /\ \A i \in 1..Len(unaffectedDevices) :
            Get(unaffectedDevices[i], "result") = OutcomeText(i)

\* ------------------------------- specification: getDevicesFromInventory

\* The variables no DeviceManager method and no PrintResults call touches.
managerFrame ==
  <<classifyVars, splitRet, reportOnly, affectedDevices, unaffectedDevices,
    workers, processedResults, registerCalls, report, concurrency,
    familyVars, parseVars, deviceList0, compareVars, hostFilterVars>>

\* ngfw.go:57, 66  the errors of Initialize and of getNgfwDeviceInfo
InitializeErrors == {NoError, "connection refused"}
DeviceInfoErrors == {NoError, "operation failed: error"}

\* ngfw.go:58, 67  the two error messages
InitializeErrorMsg(hostname, err) ==
  "Failed to initialize NGFW client for " \o hostname \o ": " \o err
DeviceInfoErrorMsg(hostname, err) ==
  "Failed to get device info for " \o hostname \o ": " \o err

\* ngfw.go:124-137  the record getNgfwDeviceInfo builds from the answer
DeviceInfo(hostname) == ("hostname" :> hostname) @@ ("result" :> "")

\* ngfw.go:49  a goroutine as go func(device) starts it
NewGoroutine(hostname) ==
  [state |-> "started", hostname |-> hostname, msg |-> "", info |-> EmptyMap,
   local |-> <<>>]

\* ngfw.go:60, 69, 75  mu.Lock() goes through when nobody holds the mutex
CanLockUnguarded(holder) == TRUE
CanLock(holder) == holder = 0

InventoryInit ==
  /\ ExtraIdleBut({"inventory", "goroutines", "mu", "errorList"})
  /\ pc = "start"
  /\ inventory \in SeqUpTo(Hostnames, MaxInventory)
  /\ goroutines = <<>>
  /\ mu = 0
  /\ errorList = <<>>
  /\ deviceList = <<>>
  /\ deviceList0 = <<>>
  /\ concurrency = 1
  /\ FamilyIdle
  /\ ParseIdle
  /\ splitRet = NoSplitRet
  /\ ClassifyIdle
  /\ MainIdle

\* ngfw.go:39-42  readInventoryFile, which may fail
ReadInventory ==
  /\ pc = "start"
  /\ \E ok \in BOOLEAN : pc' = IF ok THEN "spawn" ELSE "failed"
  /\ idx' = 1
  /\ UNCHANGED <<managerFrame, deviceList, results, closed, managerVars>>

\* ngfw.go:49-51, 78  one iteration of the loop that starts the goroutines
StartGoroutine ==
  /\ pc = "spawn"
  /\ idx <= Len(inventory)
  /\ goroutines' = Append(goroutines, NewGoroutine(inventory[idx]))
  /\ idx' = idx + 1
  /\ UNCHANGED <<pc, managerFrame, deviceList, results, closed, inventory, mu,
                 errorList, printVars, certVars>>

\* ngfw.go:53-59  the client is made and initialized
InitializeClient(g) ==
  /\ goroutines[g].state = "started"
  /\ \E err \in InitializeErrors :
       goroutines' =
         IF err # NoError
         THEN [goroutines EXCEPT
                 ![g].state = "lockError",
                 ![g].msg = InitializeErrorMsg(goroutines[g].hostname, err)]
         ELSE [goroutines EXCEPT ![g].state = "initialized"]
  /\ UNCHANGED <<pc, idx, managerFrame, deviceList, results, closed, inventory,
                 mu, errorList, printVars, certVars>>

\* ngfw.go:66-68  getNgfwDeviceInfo
QueryDeviceInfo(g) ==
  /\ goroutines[g].state = "initialized"
  /\ \E err \in DeviceInfoErrors :
       goroutines' =
         IF err # NoError
         THEN [goroutines EXCEPT
                 ![g].state = "lockError",
                 ![g].msg = DeviceInfoErrorMsg(goroutines[g].hostname, err)]
         ELSE [goroutines EXCEPT
                 ![g].state = "lockDevice",
                 ![g].info = DeviceInfo(goroutines[g].hostname)]
  /\ UNCHANGED <<pc, idx, managerFrame, deviceList, results, closed, inventory,
                 mu, errorList, printVars, certVars>>

\* ngfw.go:60, 69, 75  mu.Lock()
Lock(g) ==
  /\ goroutines[g].state \in {"lockError", "lockDevice"}
  /\ CanLock(mu)
  /\ mu' = g
  /\ goroutines' =
       [goroutines EXCEPT
          ![g].state = IF @ = "lockError" THEN "readError" ELSE "readDevice"]
  /\ UNCHANGED <<pc, idx, managerFrame, deviceList, results, closed, inventory,
                 errorList, printVars, certVars>>

\* ngfw.go:61, 70, 76  append reads the slice it is to extend
AppendRead(g) ==
  /\ goroutines[g].state \in {"readError", "readDevice"}
  /\ goroutines' =
       [goroutines EXCEPT
          ![g].local = IF goroutines[g].state = "readError"
                       THEN errorList ELSE deviceList,
          ![g].state = IF @ = "readError" THEN "writeError" ELSE "writeDevice"]
  /\ UNCHANGED <<pc, idx, managerFrame, deviceList, results, closed, inventory,
                 mu, errorList, printVars, certVars>>

\* ngfw.go:61, 70, 76  the extended slice is assigned
AppendWrite(g) ==
  /\ goroutines[g].state \in {"writeError", "writeDevice"}
  /\ IF goroutines[g].state = "writeError"
     THEN /\ errorList' = Append(goroutines[g].local, goroutines[g].msg)
          /\ UNCHANGED deviceList
     ELSE /\ deviceList' = Append(goroutines[g].local, goroutines[g].info)
          /\ UNCHANGED errorList
  /\ goroutines' = [goroutines EXCEPT ![g].state = "unlock"]
  /\ UNCHANGED <<pc, idx, managerFrame, results, closed, inventory, mu,
                 printVars, certVars>>

\* ngfw.go:62-63, 71-72, 77-78  mu.Unlock(), and wg.Done() on return
Unlock(g) ==
  /\ goroutines[g].state = "unlock"
  /\ mu' = 0
  /\ goroutines' = [goroutines EXCEPT ![g].state = "done"]
  /\ UNCHANGED <<pc, idx, managerFrame, deviceList, results, closed, inventory,
                 errorList, printVars, certVars>>

\* ngfw.go:81-92  wg.Wait() returns; deviceList is handed back
WaitInventory ==
  /\ pc = "spawn"
  /\ idx > Len(inventory)
  /\ \A g \in 1..Len(goroutines) : goroutines[g].state = "done"
  /\ pc' = "returned"
  /\ UNCHANGED <<idx, managerFrame, deviceList, results, closed, managerVars>>

InventoryNext ==
  \/ ReadInventory
  \/ StartGoroutine
  \/ \E g \in 1..Len(goroutines) : InitializeClient(g)
  \/ \E g \in 1..Len(goroutines) : QueryDeviceInfo(g)
  \/ \E g \in 1..Len(goroutines) : Lock(g)
  \/ \E g \in 1..Len(goroutines) : AppendRead(g)
  \/ \E g \in 1..Len(goroutines) : AppendWrite(g)
  \/ \E g \in 1..Len(goroutines) : Unlock(g)
  \/ WaitInventory

SpecInventory == InventoryInit /\ [][InventoryNext]_vars

\* How often x occurs in the sequence s.
Occurrences(s, x) == Cardinality({i \in 1..Len(s) : s[i] = x})

\* The goroutines that got their record, and those that met an error.
Succeeded == {g \in 1..Len(goroutines) : goroutines[g].info # EmptyMap}
Failed == {g \in 1..Len(goroutines) : goroutines[g].msg # ""}

\* C28: when wg.Wait has returned, in whatever order the goroutines ran,
\* the device list holds one record for each inventory device whose client
\* initialization and system-info query succeeded, the error list one
\* message for each device that failed, and nothing else: no append is lost
\* and none is made twice.
C28_NoAppendLost ==
  pc = "returned"
    => /\ Len(goroutines) = Len(inventory)
       /\ Succeeded \cup Failed = 1..Len(inventory)
       /\ Succeeded \cap Failed = {}
       /\ Len(deviceList) = Cardinality(Succeeded)
       /\ Len(errorList) = Cardinality(Failed)
       /\ \A g \in Succeeded :
            Occurrences(deviceList, goroutines[g].info) =
              Cardinality({h \in Succeeded :
                             goroutines[h].info = goroutines[g].info})
       /\ \A g \in Failed :
            Occurrences(errorList, goroutines[g].msg) =
              Cardinality({h \in Failed :
                             goroutines[h].msg = goroutines[g].msg})

C28_Witness ==
  /\ pc = "returned"
  /\ Len(inventory) = 3
  /\ Len(deviceList) = 2
  /\ Len(errorList) = 1
  /\ Get(deviceList[1], "hostname") = inventory[3]
  /\ goroutines[1].msg # ""

\* ------------------------------------ specification: one PrintResults call

\* strings.Contains
Contains(s, substr) ==
  \E i \in 1..(Len(s) - Len(substr) + 1) :
    SubSeq(s, i, i + Len(substr) - 1) = substr

\* The messages the registration goroutines send (main.go:64-66).
PrintMessages ==
  {"fw1: Successfully registered WildFire",
   "fw2: Failed to register WildFire - timeout"}

PrintInit ==
  /\ ExtraIdleBut({"totalDevices", "successCount", "failureCount", "pending"})
  /\ pc = "loop"
  /\ totalDevices \in 0..MaxTotal
  /\ pending \in SeqUpTo(PrintMessages, MaxTotal)
  /\ successCount = 0
  /\ failureCount = 0
  /\ deviceList = <<>>
  /\ deviceList0 = <<>>
  /\ concurrency = 1
  /\ FamilyIdle
  /\ ParseIdle
  /\ splitRet = NoSplitRet
  /\ ClassifyIdle
  /\ MainIdle

\* main.go:60-68  a goroutine sends its message
SendResult ==
  /\ pending # <<>>
  /\ ~closed
  /\ results' = Append(results, Head(pending))
  /\ pending' = Tail(pending)
  /\ UNCHANGED <<pc, idx, managerFrame, deviceList, closed, inventoryVars,
                 totalDevices, successCount, failureCount, certVars>>

\* main.go:71-74  the results channel is closed by its sender
CloseResults ==
  /\ ~closed
  /\ closed' = TRUE
  /\ UNCHANGED <<pc, idx, managerFrame, deviceList, results, inventoryVars,
                 printVars, certVars>>

\* version.go:255, 260-265  case result, ok := <-results with ok true
ReceiveResult ==
  /\ pc = "loop"
  /\ idx < totalDevices
  /\ results # <<>>
  /\ IF Contains(Head(results), "Successfully registered")
     THEN successCount' = successCount + 1 /\ UNCHANGED failureCount
     ELSE failureCount' = failureCount + 1 /\ UNCHANGED successCount
  /\ results' = Tail(results)
  /\ idx' = idx + 1
  /\ UNCHANGED <<pc, managerFrame, deviceList, closed, inventoryVars,
                 totalDevices, pending, certVars>>

\* version.go:255-259  ok is false: break leaves the select, not the loop
ReceiveClosed ==
  /\ pc = "loop"
  /\ idx < totalDevices
  /\ results = <<>>
  /\ closed
  /\ idx' = idx + 1
  /\ UNCHANGED <<pc, managerFrame, deviceList, results, closed, inventoryVars,
                 printVars, certVars>>

\* version.go:266-270  nothing arrived for six minutes
Timeout ==
  /\ pc = "loop"
  /\ idx < totalDevices
  /\ results = <<>>
  /\ ~closed
  /\ failureCount' = failureCount + 1
  /\ idx' = idx + 1
  /\ UNCHANGED <<pc, managerFrame, deviceList, results, closed, inventoryVars,
                 totalDevices, successCount, pending, certVars>>

\* version.go:253, 273  the loop ends and the totals are logged
ReturnPrint ==
  /\ pc = "loop"
  /\ idx >= totalDevices
  /\ pc' = "returned"
  /\ UNCHANGED <<idx, managerFrame, deviceList, results, closed, managerVars>>

PrintNext ==
  \/ SendResult
  \/ CloseResults
  \/ ReceiveResult
  \/ ReceiveClosed
  \/ Timeout
  \/ ReturnPrint

SpecPrint == PrintInit /\ [][PrintNext]_vars

\* C29: when PrintResults has returned, successCount + failureCount is
\* totalDevices (every expected device counted as a success or a failure),
\* also when a timeout fired or the channel was closed before totalDevices
\* results had arrived, and the loop has run at most totalDevices times.
C29_EveryDeviceCounted ==
  /\ idx <= totalDevices
  /\ pc = "returned" => successCount + failureCount = totalDevices

\* ------------------------- specification: GetDeviceCertificateStatus

\* The records of the list handed over: one as getDevicesFromInventory makes
\* it, without the key errors, and one whose errors is the empty string.
CertDevices ==
  {("hostname" :> "fw1") @@ ("ip-address" :> "10.0.0.1"),
   ("hostname" :> "fw2") @@ ("ip-address" :> "10.0.0.2") @@ ("errors" :> "")}

\* part_005:360, 368  the errors of Initialize and showDeviceCertificateStatus
CertStatusErrors == {NoError, "operation failed: error"}

\* part_005:361, 369  the two error messages
CertInitializeErrorMsg(hostname, err) ==
  "Failed to initialize client for " \o hostname \o ": " \o err
CertStatusErrorMsg(hostname, err) ==
  "Failed to get device certificate status for " \o hostname \o ": " \o err

\* json.Marshal of a []string whose elements need no escaping
RECURSIVE JoinComma(_)
JoinComma(strs) ==
  IF Len(strs) = 0 THEN ""
  ELSE IF Len(strs) = 1 THEN "\"" \o strs[1] \o "\""
  ELSE "\"" \o strs[1] \o "\"," \o JoinComma(Tail(strs))
JsonMarshalStrings(strs) == "[" \o JoinComma(strs) \o "]"

\* The lists of error messages a record of the list can hold.
CertErrorLists ==
  SeqUpTo({CertInitializeErrorMsg(h, e) :
             h \in Hostnames, e \in InitializeErrors \ {NoError}}
            \cup {CertStatusErrorMsg(h, e) :
                    h \in Hostnames, e \in CertStatusErrors \ {NoError}}, 1)

\* json.Unmarshal into a []string: the list the text is the JSON of, or an
\* error for a text that is no JSON array of strings (the empty string).
JsonUnmarshalStrings(text) ==
  LET decoded == {l \in CertErrorLists : JsonMarshalStrings(l) = text}
  IN  IF decoded = {}
      THEN [v |-> <<>>, err |-> "unexpected end of JSON input"]
      ELSE [v |-> CHOOSE l \in decoded : TRUE, err |-> NoError]

\* part_005:416-429
appendError(errorsJSON, newError) ==
  LET parsed == JsonUnmarshalStrings(errorsJSON)
      errors == IF parsed.err # NoError THEN <<>> ELSE parsed.v
  IN  JsonMarshalStrings(Append(errors, newError))

\* part_005:408-414  the JSON of the status map of a device that answered
certStatusToJSON(certStatus) ==
  "{\"status\":\"" \o Get(certStatus, "status") \o "\"}"

\* part_005:346-348  the errors of a record that had none start as "[]"
InitialErrors(record) ==
  IF "errors" \in DOMAIN record THEN record
  ELSE SetKey(record, "errors", "[]")

\* part_005:384-395  the devices counted, and the line logged
CountErrors(devices) ==
  Cardinality({i \in 1..Len(devices) : Get(devices[i], "errors") # ""})
SummaryLine(count) ==
  IF count > 0
  THEN "Total devices encountered errors while getting device certificate status: "
         \o FormatInt(count)
  ELSE "Successfully retrieved device certificate status for all devices"

CertInit ==
  /\ ExtraIdleBut({"goroutines", "errorCount", "summary"})
  /\ pc = "spawn"
  /\ deviceList \in SeqUpTo(CertDevices, MaxDevices)
  /\ deviceList0 = deviceList
  /\ goroutines = <<>>
  /\ errorCount = 0
  /\ summary = ""
  /\ concurrency = 1
  /\ FamilyIdle
  /\ ParseIdle
  /\ splitRet = NoSplitRet
  /\ ClassifyIdle
  /\ reportOnly = FALSE
  /\ idx = 1
  /\ affectedDevices = <<>>
  /\ unaffectedDevices = <<>>
  /\ workers = <<>>
  /\ results = <<>>
  /\ closed = FALSE
  /\ processedResults = <<>>
  /\ registerCalls = <<>>
  /\ report = NoReport

\* part_005:337-339, 378  one iteration of the loop that starts the goroutines
StartCertGoroutine ==
  /\ pc = "spawn"
  /\ idx <= Len(deviceList)
  /\ goroutines' =
       Append(goroutines, NewGoroutine(Get(deviceList[idx], "hostname")))
  /\ idx' = idx + 1
  /\ UNCHANGED <<pc, managerFrame, deviceList, results, closed, inventory, mu,
                 errorList, printVars, certVars>>

\* part_005:342-348  the goroutine reads its record and sets errors
CertPrepare(g) ==
  /\ goroutines[g].state = "started"
  /\ deviceList' = [deviceList EXCEPT ![g] = InitialErrors(@)]
  /\ goroutines' = [goroutines EXCEPT ![g].state = "initialize"]
  /\ UNCHANGED <<pc, idx, managerFrame, results, closed, inventory, mu,
                 errorList, printVars, certVars>>

\* part_005:351-365  the client is made and initialized
CertInitialize(g) ==
  /\ goroutines[g].state = "initialize"
  /\ \E err \in InitializeErrors :
       IF err # NoError
       THEN LET errMsg == CertInitializeErrorMsg(goroutines[g].hostname, err)
            IN  /\ deviceList' =
                     [deviceList EXCEPT
                        ![g] = SetKey(@, "errors",
                                      appendError(Get(@, "errors"), errMsg))]
                /\ goroutines' =
                     [goroutines EXCEPT ![g].state = "done", ![g].msg = errMsg]
       ELSE /\ goroutines' = [goroutines EXCEPT ![g].state = "query"]
            /\ UNCHANGED deviceList
  /\ UNCHANGED <<pc, idx, managerFrame, results, closed, inventory, mu,
                 errorList, printVars, certVars>>

\* part_005:367-377  showDeviceCertificateStatus
CertQuery(g) ==
  /\ goroutines[g].state = "query"
  /\ \E err \in CertStatusErrors :
       IF err # NoError
       THEN LET errMsg == CertStatusErrorMsg(goroutines[g].hostname, err)
            IN  /\ deviceList' =
                     [deviceList EXCEPT
                        ![g] = SetKey(@, "errors",
                                      appendError(Get(@, "errors"), errMsg))]
                /\ goroutines' =
                     [goroutines EXCEPT ![g].state = "done", ![g].msg = errMsg]
       ELSE /\ deviceList' =
                 [deviceList EXCEPT
                    ![g] = SetKey(@, "deviceCert",
                                  certStatusToJSON("status" :> "Valid"))]
            /\ goroutines' =
                 [goroutines EXCEPT ![g].state = "done",
                                    ![g].info = "status" :> "Valid"]
  /\ UNCHANGED <<pc, idx, managerFrame, results, closed, inventory, mu,
                 errorList, printVars, certVars>>

\* part_005:381-395  wg.Wait() returns and the summary is logged
CertSummary ==
  /\ pc = "spawn"
  /\ idx > Len(deviceList)
  /\ \A g \in 1..Len(goroutines) : goroutines[g].state = "done"
  /\ errorCount' = CountErrors(deviceList)
  /\ summary' = SummaryLine(errorCount')
  /\ pc' = "returned"
  /\ UNCHANGED <<idx, managerFrame, deviceList, results, closed, inventoryVars,
                 printVars>>

CertNext ==
  \/ StartCertGoroutine
  \/ \E g \in 1..Len(goroutines) : CertPrepare(g)
  \/ \E g \in 1..Len(goroutines) : CertInitialize(g)
  \/ \E g \in 1..Len(goroutines) : CertQuery(g)
  \/ CertSummary

SpecCert == CertInit /\ [][CertNext]_vars

\* C30: when GetDeviceCertificateStatus has returned, the number of devices
\* it reports as having encountered errors is the number of devices whose
\* client initialization or certificate-status query failed, and when none
\* failed it reports success for all devices.
C30_ErrorCountIsFailures ==
  pc = "returned"
    => /\ errorCount = Cardinality(Failed)
       /\ Failed = {} => summary = SummaryLine(0)

====
